---- MODULE Spec2Model ----
(***************************************************************************)
(* Switchboard Gateway: routing index, router snapshot and hot reload,     *)
(* plugin registry, plugin chain execution.                                *)
(*                                                                         *)
(* Strings whose characters matter (paths, segments, hosts) are sequences  *)
(* of one-character strings: "/a/:x" is <<"/","a","/",":","x">>.          *)
(***************************************************************************)
EXTENDS Integers, Sequences, FiniteSets, TLC

(***************************************************************************)
(* Bounds of the model.                                                    *)
(***************************************************************************)
MaxChanges == 1
MaxNotices == 1
MaxChan == 1
NumRequests == 1
MaxFails == 1
MaxChain == 3
MaxPlugins == 3

(***************************************************************************)
(* Generic helpers.                                                        *)
(***************************************************************************)
None == "none"

RECURSIVE Reverse(_)
Reverse(s) == IF s = <<>> THEN <<>> ELSE Append(Reverse(Tail(s)), Head(s))

RECURSIVE IndexOf(_, _, _)
IndexOf(s, c, i) ==
    IF i > Len(s) THEN 0
    ELSE IF s[i] = c THEN i
    ELSE IndexOf(s, c, i + 1)

HasPrefix(s, p) == Len(s) >= Len(p) /\ SubSeq(s, 1, Len(p)) = p

HasSuffix(s, p) == Len(s) >= Len(p) /\ SubSeq(s, Len(s) - Len(p) + 1, Len(s)) = p

RECURSIVE TrimLeft(_, _)
TrimLeft(s, c) == IF s # <<>> /\ Head(s) = c THEN TrimLeft(Tail(s), c) ELSE s

RECURSIVE TrimRight(_, _)
TrimRight(s, c) ==
    IF s # <<>> /\ s[Len(s)] = c THEN TrimRight(SubSeq(s, 1, Len(s) - 1), c) ELSE s

RECURSIVE Split(_, _)
Split(s, c) ==
    LET k == IndexOf(s, c, 1)
    IN IF k = 0 THEN <<s>>
       ELSE <<SubSeq(s, 1, k - 1)>> \o Split(SubSeq(s, k + 1, Len(s)), c)

RECURSIVE Join(_, _)
Join(segs, c) ==
    IF segs = <<>> THEN <<>>
    ELSE IF Len(segs) = 1 THEN segs[1]
    ELSE segs[1] \o <<c>> \o Join(Tail(segs), c)

MapPut(m, k, v) == [x \in (DOMAIN m) \cup {k} |-> IF x = k THEN v ELSE m[x]]

MapDelete(m, k) == [x \in (DOMAIN m) \ {k} |-> m[x]]

EmptyMap == [x \in {} |-> None]

(***************************************************************************)
(* Radix routing index (internal/router/radix_tree.go).                    *)
(***************************************************************************)
Route(id, serviceId, paths, methods, hosts, enabled) ==
    [id |-> id, serviceId |-> serviceId, paths |-> paths, methods |-> methods,
     hosts |-> hosts, enabled |-> enabled]

NoRoute == Route(None, None, <<>>, <<>>, <<>>, FALSE)

Service(id, enabled) == [id |-> id, enabled |-> enabled]

NoService == Service(None, FALSE)

normalizePath(path) ==
    LET p1 == IF Len(path) > 1 /\ path[Len(path)] = "/"
              THEN SubSeq(path, 1, Len(path) - 1) ELSE path
    IN IF HasPrefix(p1, <<"/">>) THEN p1 ELSE <<"/">> \o p1

splitPath(path) ==
    LET p == TrimRight(TrimLeft(path, "/"), "/")
    IN IF p = <<>> THEN <<>> ELSE Split(p, "/")

getSegmentType_NoParam(segment) ==
    IF Len(segment) = 0 THEN [nType |-> "static", paramName |-> <<>>]
    ELSE IF segment = <<"*">> THEN [nType |-> "wildcard", paramName |-> <<>>]
    ELSE [nType |-> "static", paramName |-> <<>>]

getSegmentType(segment) ==
    IF Len(segment) = 0 THEN [nType |-> "static", paramName |-> <<>>]
    ELSE IF segment = <<"*">> THEN [nType |-> "wildcard", paramName |-> <<>>]
    ELSE IF segment[1] = ":" THEN [nType |-> "param", paramName |-> Tail(segment)]
    ELSE [nType |-> "static", paramName |-> <<>>]

NewNode(nType, label, paramName, priority) ==
    [nType |-> nType, label |-> label, children |-> <<>>, route |-> NoRoute,
     priority |-> priority, paramName |-> paramName]

NewRadixTree == [root |-> NewNode("static", <<>>, <<>>, 0), size |-> 0]

nodePriority_Flat(n) == n.priority

nodePriority(n) ==
    CASE n.nType = "static" -> 100 + n.priority
      [] n.nType = "param" -> 50 + n.priority
      [] n.nType = "wildcard" -> 1
      [] OTHER -> 0

SwapAt(s, i, j) == [s EXCEPT ![i] = s[j], ![j] = s[i]]

RECURSIVE sortInner(_, _, _)
sortInner(cs, i, j) ==
    IF j > Len(cs) THEN cs
    ELSE IF nodePriority(cs[j]) > nodePriority(cs[i])
         THEN sortInner(SwapAt(cs, i, j), i, j + 1)
         ELSE sortInner(cs, i, j + 1)

RECURSIVE sortOuter(_, _)
sortOuter(cs, i) ==
    IF i > Len(cs) THEN cs ELSE sortOuter(sortInner(cs, i, i + 1), i + 1)

sortChildren(children) == sortOuter(children, 1)

RECURSIVE findChildFrom(_, _, _, _)
findChildFrom(children, segment, segType, k) ==
    IF k > Len(children) THEN 0
    ELSE IF children[k].nType = segType /\ children[k].label = segment THEN k
    ELSE findChildFrom(children, segment, segType, k + 1)

findChild(n, segment, segType) == findChildFrom(n.children, segment, segType, 1)

RECURSIVE insertNode(_, _, _, _)
insertNode(n, segments, i, route) ==
    IF i > Len(segments) THEN [n EXCEPT !.route = route]
    ELSE
      LET segment == segments[i]
          st == getSegmentType(segment)
          k == findChild(n, segment, st.nType)
      IN IF k # 0
         THEN [n EXCEPT !.children[k] = insertNode(n.children[k], segments, i + 1, route)]
         ELSE LET fresh == NewNode(st.nType, segment, st.paramName,
                                   Len(segments) - (i - 1))
                  sorted == sortChildren(Append(n.children, fresh))
                  pos == findChildFrom(sorted, segment, st.nType, 1)
              IN [n EXCEPT !.children =
                     [sorted EXCEPT ![pos] = insertNode(fresh, segments, i + 1, route)]]

Insert(t, path, route) ==
    [root |-> insertNode(t.root, splitPath(normalizePath(path)), 1, route),
     size |-> t.size + 1]

\* "Backtrack: remove param if this path didn't work".
unbindParam_Keep(params, paramName) == params

unbindParam(params, paramName) == MapDelete(params, paramName)

\* "Capture remaining path": the segments from index on, joined by "/".
captureRemaining_First(segments, index) == segments[index]

captureRemaining(segments, index) ==
    Join(SubSeq(segments, index, Len(segments)), "/")

RECURSIVE search(_, _, _, _)
RECURSIVE searchChildren(_, _, _, _, _)
searchChildren(n, k, segments, index, params) ==
    IF k > Len(n.children) THEN [route |-> NoRoute, params |-> params]
    ELSE
      LET child == n.children[k]
          segment == segments[index]
      IN CASE child.nType = "static" ->
                IF child.label = segment
                THEN LET r == search(child, segments, index + 1, params)
                     IN IF r.route # NoRoute THEN r
                        ELSE searchChildren(n, k + 1, segments, index, r.params)
                ELSE searchChildren(n, k + 1, segments, index, params)
           [] child.nType = "param" ->
                LET r == search(child, segments, index + 1,
                                MapPut(params, child.paramName, segment))
                IN IF r.route # NoRoute THEN r
                   ELSE searchChildren(n, k + 1, segments, index,
                                       unbindParam(r.params, child.paramName))
           [] child.nType = "wildcard" ->
                IF child.route # NoRoute
                THEN [route |-> child.route,
                      params |-> MapPut(params, <<"*">>,
                                        captureRemaining(segments, index))]
                ELSE searchChildren(n, k + 1, segments, index, params)
           [] OTHER -> searchChildren(n, k + 1, segments, index, params)

search(n, segments, index, params) ==
    IF index > Len(segments) THEN [route |-> n.route, params |-> params]
    ELSE searchChildren(n, 1, segments, index, params)

Search(t, path) == search(t.root, splitPath(normalizePath(path)), 1, EmptyMap)

(***************************************************************************)
(* Path matcher (internal/router/matcher.go).                              *)
(***************************************************************************)
NewMatcher == [tree |-> NewRadixTree]

RECURSIVE insertPaths(_, _, _, _)
insertPaths(tree, paths, i, route) ==
    IF i > Len(paths) THEN tree
    ELSE insertPaths(Insert(tree, paths[i], route), paths, i + 1, route)

AddRoute(m, route) ==
    IF route = NoRoute THEN m
    ELSE IF ~route.enabled THEN m
    ELSE [m EXCEPT !.tree = insertPaths(m.tree, route.paths, 1, route)]

MatcherMatch(m, path) ==
    LET r == Search(m.tree, path)
    IN IF r.route = NoRoute THEN <<>>
       ELSE IF ~r.route.enabled THEN <<>>
       ELSE <<[route |-> r.route, params |-> r.params]>>

(***************************************************************************)
(* Router (internal/router/router.go).  The router's fields are the        *)
(* snapshot: routes, services, matcher, and the plugin-instance list that  *)
(* Reload is handed by the gateway.                                        *)
(***************************************************************************)
methodAllowed_All(route, method) == TRUE

methodAllowed(route, method) ==
    Len(route.methods) = 0 \/ \E i \in 1..Len(route.methods) : route.methods[i] = method

hostMatchesPattern(host, pattern) ==
    IF host = pattern THEN TRUE
    ELSE IF HasPrefix(pattern, <<"*", ".">>)
         THEN LET suffix == SubSeq(pattern, 3, Len(pattern))
              IN HasSuffix(host, <<".">> \o suffix) \/ host = suffix
         ELSE FALSE

hostMatches(route, requestHost) ==
    IF Len(route.hosts) = 0 THEN TRUE
    ELSE LET colonIdx == IndexOf(requestHost, ":", 1)
             host == IF colonIdx # 0 THEN SubSeq(requestHost, 1, colonIdx - 1)
                     ELSE requestHost
         IN \E i \in 1..Len(route.hosts) : hostMatchesPattern(host, route.hosts[i])

NotFound == [ok |-> FALSE, route |-> NoRoute, service |-> NoService, params |-> EmptyMap]

RECURSIVE matchFilter(_, _, _, _)
matchFilter(services, matches, i, req) ==
    IF i > Len(matches) THEN NotFound
    ELSE
      LET route == matches[i].route
      IN IF ~methodAllowed(route, req.method) THEN matchFilter(services, matches, i + 1, req)
         ELSE IF ~hostMatches(route, req.host) THEN matchFilter(services, matches, i + 1, req)
         ELSE IF route.serviceId \notin DOMAIN services
              THEN matchFilter(services, matches, i + 1, req)
         ELSE IF ~services[route.serviceId].enabled
              THEN matchFilter(services, matches, i + 1, req)
         ELSE [ok |-> TRUE, route |-> route, service |-> services[route.serviceId],
               params |-> matches[i].params]

Match(r, req) ==
    LET matches == MatcherMatch(r.matcher, req.path)
    IN IF Len(matches) = 0 THEN NotFound
       ELSE matchFilter(r.services, matches, 1, req)

RECURSIVE buildServiceMap(_, _, _)
buildServiceMap(services, i, m) ==
    IF i > Len(services) THEN m
    ELSE buildServiceMap(services, i + 1, MapPut(m, services[i].id, services[i]))

RECURSIVE buildMatcher(_, _, _)
buildMatcher(routes, i, m) ==
    IF i > Len(routes) THEN m
    ELSE buildMatcher(routes, i + 1,
                      IF routes[i].enabled THEN AddRoute(m, routes[i]) ELSE m)

NewRouter(routes, services) ==
    [routes |-> routes,
     services |-> buildServiceMap(services, 1, EmptyMap),
     matcher |-> buildMatcher(routes, 1, NewMatcher)]

(***************************************************************************)
(* Plugin registry (plugin/registry.go).  A plugin row's opaque config     *)
(* document is a record: "valid" says whether the plugin's factory accepts *)
(* it, and the optional "critical" key is the flag parseCriticalFlag reads.*)
(***************************************************************************)
PluginScopeGlobal == "global"
PluginScopeService == "service"
PluginScopeRoute == "route"
PluginScopeConsumer == "consumer"

Plugin(id, name, scope, serviceId, routeId, consumerId, config, enabled, priority) ==
    [id |-> id, name |-> name, scope |-> scope, serviceId |-> serviceId,
     routeId |-> routeId, consumerId |-> consumerId, config |-> config,
     enabled |-> enabled, priority |-> priority]

factories == {"cors", "rate-limit", "request-logger"}

parseCriticalFlag_Never(configJSON) == FALSE

parseCriticalFlag_Always(configJSON) == TRUE

parseCriticalFlag(configJSON) ==
    IF "critical" \in DOMAIN configJSON THEN configJSON.critical ELSE FALSE

NoInstance ==
    [plugin |-> None, config |-> None, scope |-> None, priority |-> 0, critical |-> FALSE]

validateInstance(instance) ==
    IF instance.plugin = "" THEN FALSE
    ELSE IF instance.scope \notin {PluginScopeGlobal, PluginScopeService,
                                   PluginScopeRoute, PluginScopeConsumer} THEN FALSE
    ELSE CASE instance.scope = PluginScopeService -> instance.config.serviceId # None
           [] instance.scope = PluginScopeRoute -> instance.config.routeId # None
           [] instance.scope = PluginScopeConsumer -> instance.config.consumerId # None
           [] OTHER -> TRUE

createInstance(config) ==
    IF config.name \notin factories THEN [err |-> TRUE, instance |-> NoInstance]
    ELSE IF ~config.config.valid THEN [err |-> TRUE, instance |-> NoInstance]
    ELSE LET instance == [plugin |-> config.name, config |-> config,
                          scope |-> config.scope, priority |-> config.priority,
                          critical |-> parseCriticalFlag(config.config)]
         IN IF ~validateInstance(instance) THEN [err |-> TRUE, instance |-> NoInstance]
            ELSE [err |-> FALSE, instance |-> instance]

RECURSIVE createInstances(_, _, _)
createInstances(pluginConfigs, i, instances) ==
    IF i > Len(pluginConfigs) THEN instances
    ELSE LET c == createInstance(pluginConfigs[i])
         IN IF c.err THEN createInstances(pluginConfigs, i + 1, instances)
            ELSE createInstances(pluginConfigs, i + 1, Append(instances, c.instance))

RECURSIVE createInstances_Break(_, _, _)
createInstances_Break(pluginConfigs, i, instances) ==
    IF i > Len(pluginConfigs) THEN instances
    ELSE LET c == createInstance(pluginConfigs[i])
         IN IF c.err THEN instances
            ELSE createInstances_Break(pluginConfigs, i + 1, Append(instances, c.instance))

LoadFromDatabase_Break(pluginConfigs) == createInstances_Break(pluginConfigs, 1, <<>>)

LoadFromDatabase(pluginConfigs) == createInstances(pluginConfigs, 1, <<>>)

(***************************************************************************)
(* Plugin chain (plugin/chain.go).                                         *)
(***************************************************************************)
lessByPriority_OrEqual(a, b) == a.priority <= b.priority

\* The less function Chain.Sort hands to sort.Slice.
lessByPriority(a, b) == a.priority < b.priority

\* sort.Slice on the chains of the model: up to 12 elements it is an
\* insertion sort.
RECURSIVE insertionInner(_, _)
insertionInner(ps, j) ==
    IF j > 1 /\ lessByPriority(ps[j], ps[j - 1])
    THEN insertionInner(SwapAt(ps, j, j - 1), j - 1)
    ELSE ps

RECURSIVE insertionOuter(_, _)
insertionOuter(ps, i) ==
    IF i > Len(ps) THEN ps ELSE insertionOuter(insertionInner(ps, i), i + 1)

ChainSort(plugins) == insertionOuter(plugins, 2)

shouldInclude_All(instance, route, service) == TRUE

shouldInclude(instance, route, service) ==
    CASE instance.scope = PluginScopeGlobal -> TRUE
      [] instance.scope = PluginScopeService ->
            IF instance.config.serviceId # None
            THEN instance.config.serviceId = service.id ELSE FALSE
      [] instance.scope = PluginScopeRoute ->
            IF instance.config.routeId # None
            THEN instance.config.routeId = route.id ELSE FALSE
      [] instance.scope = PluginScopeConsumer -> FALSE
      [] OTHER -> FALSE

BuildForRoute(allPlugins, route, service) ==
    ChainSort(SelectSeq(allPlugins, LAMBDA inst : shouldInclude(inst, route, service)))

PhaseBeforeRequest == "before_request"
PhaseAfterResponse == "after_response"

getExecutionOrder_NoReverse(plugins, phase) == plugins

getExecutionOrder(plugins, phase) ==
    IF phase = PhaseAfterResponse THEN Reverse(plugins) ELSE plugins

(***************************************************************************)
(* Repository reads (database/repository.go).  A table is the sequence of  *)
(* its rows in creation order.                                             *)
(***************************************************************************)
GetRoutes(tbl) == Reverse(SelectSeq(tbl, LAMBDA r : r.enabled))

GetServices(tbl) == Reverse(SelectSeq(tbl, LAMBDA s : s.enabled))

RECURSIVE orderInsert(_, _)
orderInsert(sorted, p) ==
    IF sorted = <<>> THEN <<p>>
    ELSE IF p.priority < Head(sorted).priority THEN <<p>> \o sorted
    ELSE <<Head(sorted)>> \o orderInsert(Tail(sorted), p)

RECURSIVE orderByPriority(_, _)
orderByPriority(rows, sorted) ==
    IF rows = <<>> THEN sorted
    ELSE orderByPriority(Tail(rows), orderInsert(sorted, Head(rows)))

GetPlugins(tbl) == orderByPriority(SelectSeq(tbl, LAMBDA p : p.enabled), <<>>)

(***************************************************************************)
(* Configuration used by the model: the rows the control plane may create, *)
(* and the requests clients may send.                                      *)
(***************************************************************************)
PathA == <<"/", "a">>
PathAParam == <<"/", "a", "/", ":", "x">>
PathA1 == <<"/", "a", "/", "1">>

RouteR1 == Route("r1", "s1", <<PathA>>, <<"GET">>, <<>>, TRUE)
RouteR2 == Route("r2", "s1", <<PathAParam>>, <<>>, <<>>, TRUE)
RouteCatalog == {RouteR1, RouteR2}

ServiceCatalog == {Service("s1", TRUE), Service("s2", TRUE)}

CfgOk == [valid |-> TRUE]
CfgCritical == [valid |-> TRUE, critical |-> TRUE]
CfgInvalid == [valid |-> FALSE]

PluginP1 == Plugin("p1", "cors", PluginScopeGlobal, None, None, None, CfgOk, TRUE, 10)
PluginP2 == Plugin("p2", "rate-limit", PluginScopeService, "s1", None, None, CfgCritical, TRUE, 5)
PluginP3 == Plugin("p3", "jwt-auth", PluginScopeGlobal, None, None, None, CfgOk, TRUE, 1)
PluginP4 == Plugin("p4", "request-logger", PluginScopeRoute, None, None, None, CfgOk, TRUE, 10)
PluginP5 == Plugin("p5", "cors", PluginScopeGlobal, None, None, None, CfgInvalid, TRUE, 7)
PluginP6 == Plugin("p6", "cors", PluginScopeGlobal, None, None, None, CfgOk, FALSE, 3)
PluginCatalog == {PluginP1, PluginP2, PluginP3, PluginP4, PluginP5, PluginP6}
AdminPlugins == {PluginP1, PluginP2, PluginP3}

Request(path, method, host) == [path |-> path, method |-> method, host |-> host]

RequestCatalog == {Request(PathA, "GET", <<>>), Request(PathA1, "GET", <<>>)}

RowIds(tbl) == {tbl[i].id : i \in 1..Len(tbl)}

DeleteRow(tbl, id) == SelectSeq(tbl, LAMBDA row : row.id # id)

(***************************************************************************)
(* State.                                                                  *)
(***************************************************************************)
VARIABLES
    tblRoutes,      \* store: routes table
    tblServices,    \* store: services table
    tblPlugins,     \* store: plugins table
    changes,        \* number of control-plane changes made so far
    notices,        \* number of other notifications published so far
    fails,          \* number of store reads that have failed so far
    ch,             \* pub/sub channel: messages published and not yet received
    w,              \* the watcher goroutine: position and locals of the handler
    router,         \* Router: routes, services, matcher
    snapPlugins,    \* the plugin-instance list of the published snapshot
    registry,       \* Registry.instances
    reqs,           \* request handlers
    gen,            \* which reload wrote the matcher, service map and plugin list
    before,         \* router, snapshot list and registry when handling began
    published,      \* what the last successful router reload read from the store
    loadResult,     \* the latest list LoadFromDatabase produced, and for which reload
    arrived,        \* ids of the messages published, in order
    handled,        \* ids of the messages whose handling began, in order
    chain,          \* Chain.plugins of the request executing its chain
    ctx,            \* plugin Context: phase and abort state
    exec,           \* Chain.Execute: position, execution order, call log
    limiterConfig,  \* rate limiter under test: its algorithm and configuration
    clock,          \* real time, in ticks
    redisKey,       \* the shared store's value under the identifier's key
    noExpiryKey,    \* the same key in a reference store whose keys never expire
    clients,        \* callers of Allow: position and the time each one read
    results,        \* the calls the store has executed, in execution order
    tree,           \* RadixTree: root and size
    inserted,       \* the Insert calls made on the tree, in order
    found,          \* the latest Search: its path and what it returned
    matchRouter,    \* a Router built by NewRouter
    matched,        \* the latest Router.Match: its request and what it returned
    rw,             \* ResponseWriter, and the calls that reached the writer it wraps
    exchange,       \* Proxy: one request on its way to the upstream and back
    cors            \* CORSPlugin: one request handled in BeforeRequest

reloadVars == <<tblRoutes, tblServices, tblPlugins, changes, notices, fails, ch, w, router,
                snapPlugins, registry, reqs, gen, before, published, loadResult, arrived, handled>>

chainVars == <<chain, ctx, exec>>

limiterVars == <<limiterConfig, clock, redisKey, noExpiryKey, clients, results>>

edgeVars == <<exchange, cors>>

unitVars == <<tree, inserted, found, matchRouter, matched, rw, edgeVars>>

vars == <<reloadVars, chainVars, limiterVars, unitVars>>

(***************************************************************************)
(* The snapshot's plugin-instance list: Router.Reload is handed the list   *)
(* and stores it with the routes and services; the request resolves its    *)
(* chain from the stored list together with the match.                     *)
(***************************************************************************)
StorePlugins(pluginInstances) == pluginInstances

ResolveChain(plugins, res) ==
    IF res.ok THEN BuildForRoute(plugins, res.route, res.service) ELSE <<>>

(***************************************************************************)
(* Initial state: the gateway has started and loaded the store once.       *)
(***************************************************************************)
NoMsg == [id |-> 0, entity |-> None]

IdleReq ==
    [st |-> "idle", req |-> Request(<<>>, None, <<>>), res |-> NotFound, chain |-> <<>>,
     gM |-> 0, gS |-> 0, gP |-> 0]

DoneReq == [IdleReq EXCEPT !.st = "done"]

ChainIdle == <<>>

CtxIdle == [phase |-> None, aborted |-> FALSE, abortStatusCode |-> 0]

ExecIdle == [pc |-> "off"]

InitStore ==
    /\ tblRoutes = <<RouteR1>>
    /\ tblServices = <<Service("s1", TRUE)>>
    /\ tblPlugins = <<PluginP1, PluginP3>>
    /\ changes = 0
    /\ notices = 0
    /\ fails = 0

InitGateway ==
    /\ ch = <<>>
    /\ w = [pc |-> "select", id |-> 0, msg |-> NoMsg, plugins |-> <<>>,
            routes |-> <<>>, services |-> <<>>, pluginsRead |-> FALSE,
            outcome |-> "none"]
    /\ router = NewRouter(GetRoutes(tblRoutes), GetServices(tblServices))
    /\ registry = LoadFromDatabase(GetPlugins(tblPlugins))
    /\ snapPlugins = StorePlugins(registry)
    /\ reqs = [q \in 1..NumRequests |-> IdleReq]
    /\ gen = [matcher |-> 0, services |-> 0, plugins |-> 0]
    /\ before = [router |-> router, snapPlugins |-> snapPlugins, registry |-> registry]
    /\ published = [routes |-> GetRoutes(tblRoutes), services |-> GetServices(tblServices),
                    plugins |-> snapPlugins]
    /\ loadResult = [id |-> 0, list |-> registry]
    /\ arrived = <<>>
    /\ handled = <<>>

\* No rate limiter is exercised.
InitLimiterIdle ==
    /\ limiterConfig = [algorithm |-> None]
    /\ clock = 0
    /\ redisKey = [exists |-> FALSE]
    /\ noExpiryKey = [exists |-> FALSE]
    /\ clients = <<>>
    /\ results = <<>>

\* No proxy exchange and no CORS decision is under way.
InitEdgeIdle ==
    /\ exchange = [pc |-> "off"]
    /\ cors = [handled |-> FALSE]

\* No routing index, router or response writer is exercised on its own.
InitUnitIdle ==
    /\ tree = NewRadixTree
    /\ inserted = <<>>
    /\ found = [searched |-> FALSE]
    /\ matchRouter = NewRouter(<<>>, <<>>)
    /\ matched = [called |-> FALSE]
    /\ rw = [statusCode |-> 0]
    /\ InitEdgeIdle

Init ==
    /\ InitStore
    /\ InitGateway
    /\ chain = ChainIdle
    /\ ctx = CtxIdle
    /\ exec = ExecIdle
    /\ InitLimiterIdle
    /\ InitUnitIdle

(***************************************************************************)
(* Control plane (external): changes a table and publishes a notification. *)
(***************************************************************************)
Publish(entity) ==
    /\ Len(ch) < MaxChan
    /\ ch' = Append(ch, [id |-> Len(arrived) + 1, entity |-> entity])
    /\ arrived' = Append(arrived, Len(arrived) + 1)

Change ==
    /\ changes < MaxChanges
    /\ changes' = changes + 1
    /\ UNCHANGED notices

gatewayVars == <<fails, w, router, snapPlugins, registry, reqs, gen, before, published,
                 loadResult, handled>>

AdminCreateRoute ==
    \E r \in RouteCatalog :
        /\ r.id \notin RowIds(tblRoutes)
        /\ tblRoutes' = Append(tblRoutes, r)
        /\ Change
        /\ Publish("route")
        /\ UNCHANGED <<tblServices, tblPlugins, gatewayVars, chainVars, limiterVars, unitVars>>

AdminDeleteRoute ==
    \E id \in RowIds(tblRoutes) :
        /\ tblRoutes' = DeleteRow(tblRoutes, id)
        /\ Change
        /\ Publish("route")
        /\ UNCHANGED <<tblServices, tblPlugins, gatewayVars, chainVars, limiterVars, unitVars>>

AdminCreateService ==
    \E s \in ServiceCatalog :
        /\ s.id \notin RowIds(tblServices)
        /\ tblServices' = Append(tblServices, s)
        /\ Change
        /\ Publish("service")
        /\ UNCHANGED <<tblRoutes, tblPlugins, gatewayVars, chainVars, limiterVars, unitVars>>

AdminDeleteService ==
    \E id \in RowIds(tblServices) :
        /\ tblServices' = DeleteRow(tblServices, id)
        /\ Change
        /\ Publish("service")
        /\ UNCHANGED <<tblRoutes, tblPlugins, gatewayVars, chainVars, limiterVars, unitVars>>

AdminCreatePlugin ==
    \E p \in AdminPlugins :
        /\ p.id \notin RowIds(tblPlugins)
        /\ tblPlugins' = Append(tblPlugins, p)
        /\ Change
        /\ Publish("plugin")
        /\ UNCHANGED <<tblRoutes, tblServices, gatewayVars, chainVars, limiterVars, unitVars>>

AdminDeletePlugin ==
    \E id \in RowIds(tblPlugins) :
        /\ tblPlugins' = DeleteRow(tblPlugins, id)
        /\ Change
        /\ Publish("plugin")
        /\ UNCHANGED <<tblRoutes, tblServices, gatewayVars, chainVars, limiterVars, unitVars>>

OtherEntities == {"consumer", "badjson"}

PublishOther ==
    \E entity \in OtherEntities :
        /\ notices < MaxNotices
        /\ notices' = notices + 1
        /\ Publish(entity)
        /\ UNCHANGED <<tblRoutes, tblServices, tblPlugins, changes, gatewayVars, chainVars, limiterVars, unitVars>>

storeVars == <<tblRoutes, tblServices, tblPlugins, changes, notices, ch, arrived>>

(***************************************************************************)
(* Watcher.Start (config/watcher.go): one loop iteration receives a        *)
(* message, parses it and calls Gateway.HandleConfigChange synchronously.  *)
(***************************************************************************)
ReloadEntities == {"route", "service", "plugin"}

Return(h, outcome) ==
    [h EXCEPT !.pc = "select", !.outcome = outcome, !.msg = NoMsg, !.plugins = <<>>,
              !.routes = <<>>, !.services = <<>>]

Receive_Unserialized ==
    /\ TRUE
    /\ ch # <<>>
    /\ LET msg == Head(ch)
       IN /\ ch' = Tail(ch)
          /\ handled' = Append(handled, msg.id)
          /\ before' = [router |-> router, snapPlugins |-> snapPlugins,
                        registry |-> registry]
          /\ w' = [pc |-> IF msg.entity \in ReloadEntities THEN "regClear" ELSE "select",
                   id |-> msg.id, msg |-> msg, plugins |-> <<>>, routes |-> <<>>,
                   services |-> <<>>, pluginsRead |-> FALSE,
                   outcome |-> IF msg.entity \in ReloadEntities THEN "none"
                               ELSE IF msg.entity = "badjson" THEN "badjson"
                               ELSE "ignored"]
    /\ UNCHANGED <<tblRoutes, tblServices, tblPlugins, changes, notices, arrived, fails, router,
                   snapPlugins, registry, reqs, gen, published, loadResult, chainVars, limiterVars, unitVars>>

Receive_ReturnOnParseError ==
    /\ w.pc = "select"
    /\ ch # <<>>
    /\ LET msg == Head(ch)
       IN /\ ch' = Tail(ch)
          /\ handled' = Append(handled, msg.id)
          /\ before' = [router |-> router, snapPlugins |-> snapPlugins,
                        registry |-> registry]
          /\ w' = [pc |-> IF msg.entity \in ReloadEntities THEN "regClear"
                          ELSE IF msg.entity = "badjson" THEN "returned"
                          ELSE "select",
                   id |-> msg.id, msg |-> msg, plugins |-> <<>>, routes |-> <<>>,
                   services |-> <<>>, pluginsRead |-> FALSE,
                   outcome |-> IF msg.entity \in ReloadEntities THEN "none"
                               ELSE IF msg.entity = "badjson" THEN "badjson"
                               ELSE "ignored"]
    /\ UNCHANGED <<tblRoutes, tblServices, tblPlugins, changes, notices, arrived, fails, router,
                   snapPlugins, registry, reqs, gen, published, loadResult, chainVars, limiterVars, unitVars>>

Receive ==
    /\ w.pc = "select"
    /\ ch # <<>>
    /\ LET msg == Head(ch)
       IN /\ ch' = Tail(ch)
          /\ handled' = Append(handled, msg.id)
          /\ before' = [router |-> router, snapPlugins |-> snapPlugins,
                        registry |-> registry]
          /\ w' = [pc |-> IF msg.entity \in ReloadEntities THEN "regClear" ELSE "select",
                   id |-> msg.id, msg |-> msg, plugins |-> <<>>, routes |-> <<>>,
                   services |-> <<>>, pluginsRead |-> FALSE,
                   outcome |-> IF msg.entity \in ReloadEntities THEN "none"
                               ELSE IF msg.entity = "badjson" THEN "badjson"
                               ELSE "ignored"]
    /\ UNCHANGED <<tblRoutes, tblServices, tblPlugins, changes, notices, arrived, fails, router,
                   snapPlugins, registry, reqs, gen, published, loadResult, chainVars, limiterVars, unitVars>>


(***************************************************************************)
(* Registry.Reload (plugin/registry.go), called by the gateway handlers.   *)
(***************************************************************************)
RegistryClear ==
    /\ w.pc = "regClear"
    /\ registry' = <<>>
    /\ w' = [w EXCEPT !.pc = "regLoad"]
    /\ UNCHANGED <<storeVars, fails, router, snapPlugins, reqs, gen, before, published,
                   loadResult, handled, chainVars, limiterVars, unitVars>>

RegistryLoad ==
    /\ w.pc = "regLoad"
    /\ \/ /\ LET instances == LoadFromDatabase(GetPlugins(tblPlugins))
             IN /\ registry' = instances
                /\ loadResult' = [id |-> w.id, list |-> instances]
                /\ w' = [w EXCEPT !.pc = "getRoutes", !.plugins = instances,
                                  !.pluginsRead = TRUE]
          /\ UNCHANGED fails
       \/ /\ fails < MaxFails
          /\ fails' = fails + 1
          /\ w' = IF w.msg.entity = "plugin"
                  THEN Return(w, "pluginReadFailed")
                  ELSE [w EXCEPT !.pc = "getRoutes", !.plugins = <<>>]
          /\ UNCHANGED <<registry, loadResult>>
    /\ UNCHANGED <<storeVars, router, snapPlugins, reqs, gen, before, published,
                   handled, chainVars, limiterVars, unitVars>>

(***************************************************************************)
(* Router.Reload (router/router.go).                                       *)
(***************************************************************************)
RouterLoadRoutes ==
    /\ w.pc = "getRoutes"
    /\ \/ /\ w' = [w EXCEPT !.pc = "getServices", !.routes = GetRoutes(tblRoutes)]
          /\ UNCHANGED fails
       \/ /\ fails < MaxFails
          /\ fails' = fails + 1
          /\ w' = Return(w, "routesReadFailed")
    /\ UNCHANGED <<storeVars, router, snapPlugins, registry, reqs, gen, before,
                   published, loadResult, handled, chainVars, limiterVars, unitVars>>

RouterLoadServices_EarlyAssign ==
    /\ w.pc = "getServices"
    /\ \/ /\ w' = [w EXCEPT !.pc = "swap", !.services = GetServices(tblServices)]
          /\ UNCHANGED <<fails, router>>
       \/ /\ fails < MaxFails
          /\ fails' = fails + 1
          /\ router' = [router EXCEPT !.routes = w.routes]
          /\ w' = Return(w, "servicesReadFailed")
    /\ UNCHANGED <<storeVars, snapPlugins, registry, reqs, gen, before,
                   published, loadResult, handled, chainVars, limiterVars, unitVars>>

RouterLoadServices ==
    /\ w.pc = "getServices"
    /\ \/ /\ w' = [w EXCEPT !.pc = "swap", !.services = GetServices(tblServices)]
          /\ UNCHANGED fails
       \/ /\ fails < MaxFails
          /\ fails' = fails + 1
          /\ w' = Return(w, "servicesReadFailed")
    /\ UNCHANGED <<storeVars, router, snapPlugins, registry, reqs, gen, before,
                   published, loadResult, handled, chainVars, limiterVars, unitVars>>

ReloadBuild_EmptyIndex(routes, services) ==
    [routes |-> routes,
     services |-> buildServiceMap(services, 1, EmptyMap),
     matcher |-> NewMatcher]

ReloadBuild(routes, services) ==
    [routes |-> routes,
     services |-> buildServiceMap(services, 1, EmptyMap),
     matcher |-> buildMatcher(routes, 1, NewMatcher)]

RouterSwap_KeepServices ==
    /\ w.pc = "swap"
    /\ router' = [ReloadBuild(w.routes, w.services) EXCEPT !.services = router.services]
    /\ snapPlugins' = StorePlugins(w.plugins)
    /\ gen' = [matcher |-> w.id, services |-> gen.services, plugins |-> w.id]
    /\ published' = [routes |-> w.routes, services |-> w.services, plugins |-> w.plugins]
    /\ w' = Return(w, IF w.pluginsRead THEN "ok" ELSE "okEmptyPlugins")
    /\ UNCHANGED <<storeVars, fails, registry, reqs, before, loadResult,
                   handled, chainVars, limiterVars, unitVars>>

RouterSwap_InPlace ==
    /\ w.pc = "swap"
    /\ router' = ReloadBuild(w.routes, w.services)
    /\ snapPlugins' = StorePlugins(w.plugins)
    /\ gen' = [matcher |-> w.id, services |-> w.id, plugins |-> w.id]
    /\ published' = [routes |-> w.routes, services |-> w.services, plugins |-> w.plugins]
    /\ w' = Return(w, IF w.pluginsRead THEN "ok" ELSE "okEmptyPlugins")
    /\ reqs' = [q \in 1..NumRequests |->
                  IF reqs[q].st = "inflight"
                  THEN [reqs[q] EXCEPT !.res.service =
                           IF reqs[q].res.service.id \in DOMAIN router'.services
                           THEN router'.services[reqs[q].res.service.id]
                           ELSE NoService]
                  ELSE reqs[q]]
    /\ UNCHANGED <<storeVars, fails, registry, before, loadResult,
                   handled, chainVars, limiterVars, unitVars>>

RouterSwap ==
    /\ w.pc = "swap"
    /\ router' = ReloadBuild(w.routes, w.services)
    /\ snapPlugins' = StorePlugins(w.plugins)
    /\ gen' = [matcher |-> w.id, services |-> w.id, plugins |-> w.id]
    /\ published' = [routes |-> w.routes, services |-> w.services, plugins |-> w.plugins]
    /\ w' = Return(w, IF w.pluginsRead THEN "ok" ELSE "okEmptyPlugins")
    /\ UNCHANGED <<storeVars, fails, registry, reqs, before, loadResult,
                   handled, chainVars, limiterVars, unitVars>>

(***************************************************************************)
(* Registry.GetInstances: what a reader of the registry gets, at any time  *)
(* and without synchronisation.                                            *)
(***************************************************************************)
GetInstances == registry

(***************************************************************************)
(* Request handlers: Router.Match under the read lock, then the rest of    *)
(* the request with the references Match returned.                         *)
(***************************************************************************)
StartRequest(q) ==
    /\ reqs[q].st = "idle"
    /\ \A p \in 1..(q - 1) : reqs[p].st # "idle"
    /\ \E req \in RequestCatalog :
          LET res == Match(router, req)
          IN reqs' = [reqs EXCEPT ![q] =
                         [st |-> "inflight", req |-> req, res |-> res,
                          chain |-> ResolveChain(snapPlugins, res),
                          gM |-> gen.matcher, gS |-> gen.services, gP |-> gen.plugins]]
    /\ UNCHANGED <<storeVars, fails, w, router, snapPlugins, registry, gen, before,
                   published, loadResult, handled, chainVars, limiterVars, unitVars>>

CompleteRequest(q) ==
    /\ reqs[q].st = "inflight"
    /\ reqs' = [reqs EXCEPT ![q] = DoneReq]
    /\ UNCHANGED <<storeVars, fails, w, router, snapPlugins, registry, gen, before,
                   published, loadResult, handled, chainVars, limiterVars, unitVars>>

Next ==
    \/ AdminCreateRoute
    \/ AdminDeleteRoute
    \/ AdminCreateService
    \/ AdminDeleteService
    \/ AdminCreatePlugin
    \/ AdminDeletePlugin
    \/ Receive
    \/ RegistryClear
    \/ RegistryLoad
    \/ RouterLoadRoutes
    \/ RouterLoadServices
    \/ RouterSwap
    \/ \E q \in 1..NumRequests : StartRequest(q)
    \/ \E q \in 1..NumRequests : CompleteRequest(q)

Spec == Init /\ [][Next]_vars

(***************************************************************************)
(* The watcher and the handlers on their own, with every kind of message   *)
(* on the channel and no request in progress.                              *)
(***************************************************************************)
NextWatch ==
    \/ AdminCreateRoute
    \/ AdminDeleteRoute
    \/ AdminCreateService
    \/ AdminDeleteService
    \/ AdminCreatePlugin
    \/ AdminDeletePlugin
    \/ PublishOther
    \/ Receive
    \/ RegistryClear
    \/ RegistryLoad
    \/ RouterLoadRoutes
    \/ RouterLoadServices
    \/ RouterSwap

SpecWatch == Init /\ [][NextWatch]_vars

(***************************************************************************)
(* Registry.Reload on its own, over every small plugins table: the handler *)
(* of a "plugin" message has cleared the registry and is about to load.    *)
(***************************************************************************)
PluginTables ==
    {t \in UNION {[1..n -> PluginCatalog] : n \in 0..MaxPlugins} :
        \A i, j \in 1..Len(t) : i # j => t[i].id # t[j].id}

InitLoadSpec ==
    /\ tblRoutes = <<RouteR1>>
    /\ tblServices = <<Service("s1", TRUE)>>
    /\ tblPlugins \in PluginTables
    /\ changes = 1
    /\ notices = 0
    /\ fails = 0
    /\ ch = <<>>
    /\ w = [pc |-> "regLoad", id |-> 1, msg |-> [id |-> 1, entity |-> "plugin"],
            plugins |-> <<>>, routes |-> <<>>, services |-> <<>>,
            pluginsRead |-> FALSE, outcome |-> "none"]
    /\ router = NewRouter(GetRoutes(tblRoutes), GetServices(tblServices))
    /\ registry = <<>>
    /\ snapPlugins = StorePlugins(<<>>)
    /\ reqs = [q \in 1..NumRequests |-> IdleReq]
    /\ gen = [matcher |-> 0, services |-> 0, plugins |-> 0]
    /\ before = [router |-> router, snapPlugins |-> snapPlugins, registry |-> registry]
    /\ published = [routes |-> GetRoutes(tblRoutes), services |-> GetServices(tblServices),
                    plugins |-> snapPlugins]
    /\ loadResult = [id |-> 0, list |-> registry]
    /\ arrived = <<1>>
    /\ handled = <<1>>
    /\ chain = ChainIdle
    /\ ctx = CtxIdle
    /\ exec = ExecIdle
    /\ InitLimiterIdle
    /\ InitUnitIdle

NextLoad == RegistryLoad

SpecLoad == InitLoadSpec /\ [][NextLoad]_vars

(***************************************************************************)
(* Reload consistency.                                                     *)
(***************************************************************************)
Started(q) == reqs[q].st = "inflight"

FreshRouter == NewRouter(published.routes, published.services)

\* C1: every request resolves its route, its service and its plugin-instance
\* list from one published snapshot: the matcher, the service map and the
\* plugin list it read were all written by the same reload.
C1_SingleSnapshot ==
    \A q \in 1..NumRequests :
        Started(q) => /\ reqs[q].gM = reqs[q].gS
                      /\ reqs[q].gS = reqs[q].gP

C1_Witness ==
    \E q \in 1..NumRequests :
        /\ Started(q)
        /\ reqs[q].res.ok
        /\ w.pc \in {"getServices", "swap"}
        /\ w.id > reqs[q].gM

\* C2: a request in flight keeps the route, service and plugin instances it
\* resolved, whatever reloads do meanwhile, and is never dropped: it stays in
\* flight with the same references, or completes.
C2_InFlightKeepsSnapshot ==
    [][\A q \in 1..NumRequests :
          reqs[q].st = "inflight" =>
              \/ reqs'[q].st = "done"
              \/ /\ reqs'[q].st = "inflight"
                 /\ reqs'[q].res = reqs[q].res
                 /\ reqs'[q].chain = reqs[q].chain]_vars

C2_Witness ==
    \E q \in 1..NumRequests :
        /\ reqs[q].st = "inflight"
        /\ reqs[q].res.ok
        /\ reqs[q].gM < gen.matcher
        /\ reqs[q].res.route.id \notin RowIds(router.routes)

\* C3: a request that starts after a successful reload is resolved entirely
\* against what that reload read: it matches exactly as a router freshly built
\* from those routes and services would, with a chain from that plugin list.
C3_NewSnapshotAfterReload ==
    [][\A q \in 1..NumRequests :
          (reqs[q].st = "idle" /\ reqs'[q].st # "idle") =>
              /\ reqs'[q].res = Match(FreshRouter, reqs'[q].req)
              /\ reqs'[q].chain = ResolveChain(published.plugins, reqs'[q].res)]_vars

C3_Witness ==
    \E q \in 1..NumRequests :
        /\ Started(q)
        /\ reqs[q].res.ok
        /\ reqs[q].res.route.id = "r2"
        /\ reqs[q].gM >= 1
        /\ reqs[q].gM = gen.matcher

\* C4: when reading routes or services fails during a router reload, the
\* router's route list, service map and routing index are those in place
\* before the reload, and every match returns what it returned before.
C4_FailedReadKeepsRouter ==
    (w.pc = "select" /\ w.outcome \in {"routesReadFailed", "servicesReadFailed"}) =>
        /\ router = before.router
        /\ snapPlugins = before.snapPlugins
        /\ \A req \in RequestCatalog : Match(router, req) = Match(before.router, req)

C4_Witness ==
    /\ w.pc = "select"
    /\ w.outcome = "servicesReadFailed"
    /\ GetRoutes(tblRoutes) # router.routes

\* C5: after a configuration-change message has been handled, the visible
\* (routes, services, plugin-instance list) is either entirely the result of
\* that reload's store reads or identical to what it was before the message.
C5_AllOrNothing ==
    (w.pc = "select" /\ w.outcome # "none") =>
        \/ /\ router = before.router
           /\ snapPlugins = before.snapPlugins
        \/ /\ w.outcome = "ok"
           /\ router = FreshRouter
           /\ snapPlugins = published.plugins

C7_AtomicReplace ==
    w.pc # "select" =>
        \/ GetInstances = before.registry
        \/ /\ loadResult.id = w.id
           /\ GetInstances = loadResult.list

ScopeRefOk(p) ==
    /\ p.scope \in {PluginScopeGlobal, PluginScopeService, PluginScopeRoute,
                    PluginScopeConsumer}
    /\ p.scope = PluginScopeService => p.serviceId # None
    /\ p.scope = PluginScopeRoute => p.routeId # None
    /\ p.scope = PluginScopeConsumer => p.consumerId # None

Constructible(p) == p.name \in factories /\ p.config.valid /\ ScopeRefOk(p)

\* C8: a load whose store read succeeds publishes, in store order, exactly
\* the enabled plugins that can be constructed; one whose construction fails
\* (unknown name, invalid config, scope without its reference) is left out
\* and does not fail the load.
C8_FailingPluginSkipped ==
    [][(w.pc = "regLoad" /\ w'.pc # "regLoad" /\ fails' = fails) =>
          LET good == SelectSeq(GetPlugins(tblPlugins), Constructible)
          IN /\ w'.pluginsRead
             /\ Len(registry') = Len(good)
             /\ \A i \in 1..Len(good) : registry'[i].config = good[i]]_vars

C8_Witness ==
    /\ w.pc = "getRoutes"
    /\ w.pluginsRead
    /\ Len(registry) >= 2
    /\ registry[1].config.id # tblPlugins[1].id
    /\ \E i \in 1..Len(tblPlugins) : tblPlugins[i].enabled /\ ~Constructible(tblPlugins[i])

(***************************************************************************)
(* One request's plugin chain: Chain.Execute (plugin/chain.go) and the     *)
(* plugin Context (plugin/plugin.go), driven by the dispatcher through     *)
(* BeforeRequest, the proxy step and AfterResponse.  What a plugin does    *)
(* when executed (return, abort, fail) is an input.                        *)
(***************************************************************************)
ChainC5 == Plugin("c5", "rate-limit", PluginScopeGlobal, None, None, None, CfgOk, TRUE, 5)
ChainC10 == Plugin("c10", "rate-limit", PluginScopeGlobal, None, None, None, CfgCritical, TRUE, 10)
ChainC10s == Plugin("c10s", "request-logger", PluginScopeService, "s1", None, None, CfgOk, TRUE, 10)
ChainC15 == Plugin("c15", "request-logger", PluginScopeRoute, None, "r1", None, CfgOk, TRUE, 15)
ChainCx == Plugin("cx", "cors", PluginScopeService, "s2", None, None, CfgOk, TRUE, 1)
ChainCr2 == Plugin("cr2", "request-logger", PluginScopeRoute, None, "r2", None, CfgOk, TRUE, 15)
ChainCu == Plugin("cu", "cors", PluginScopeConsumer, None, None, "u1", CfgOk, TRUE, 10)
ChainCatalog == {ChainC5, ChainC10, ChainC10s, ChainC15, ChainCx, ChainCr2, ChainCu}

ChainTables ==
    {t \in UNION {[1..n -> ChainCatalog] : n \in 0..MaxChain} :
        \A i, j \in 1..Len(t) : i # j => t[i].id # t[j].id}

PluginOutcomes == {"ok", "abort", "error", "abortAndError"}

\* RateLimitConfig.Critical: DefaultRateLimitConfig (false) overridden by the
\* "critical" field of the plugin's config document.
RateLimitCritical(configJSON) ==
    IF "critical" \in DOMAIN configJSON THEN configJSON.critical ELSE FALSE

\* RateLimitPlugin.handleError, as the outcome of the plugin's Execute: a
\* critical plugin aborts with 503 and returns the error, a non-critical
\* one returns nil.
handleError(configJSON) ==
    IF RateLimitCritical(configJSON) THEN "abortAndError" ELSE "ok"

\* What can happen inside a plugin's Execute. Besides the outcomes any
\* plugin may have, the rate-limit plugin in BeforeRequest may find its
\* store unreachable or its script failing (Allow returns an error).
PluginInputs(instance, c) ==
    PluginOutcomes \cup
        (IF instance.plugin = "rate-limit" /\ c.phase = PhaseBeforeRequest
         THEN {"storeError"} ELSE {})

OutcomeOf(instance, input) ==
    IF input = "storeError" THEN handleError(instance.config.config) ELSE input

AbortStatus == 503

Abort(c, statusCode) == [c EXCEPT !.aborted = TRUE, !.abortStatusCode = statusCode]

IsAborted_Never(c) == FALSE

IsAborted(c) == c.aborted

ExecStart == [pc |-> "start", order |-> <<>>, pos |-> 0, log |-> <<>>, err |-> FALSE,
              forwarded |-> FALSE, status |-> 0]

\* The chain of a request matched to route r1 of service s1, built from the
\* registry's current plugin-instance list.
InitChain ==
    /\ chain = BuildForRoute(GetInstances, RouteR1, Service("s1", TRUE))
    /\ ctx = [phase |-> None, aborted |-> FALSE, abortStatusCode |-> 0]
    /\ exec = ExecStart

\* The store holds any small table of plugins.
InitChainStore ==
    /\ tblRoutes = <<RouteR1>>
    /\ tblServices = <<Service("s1", TRUE)>>
    /\ tblPlugins \in ChainTables
    /\ changes = 0
    /\ notices = 0
    /\ fails = 0

InitChainSpec ==
    /\ InitChainStore
    /\ InitGateway
    /\ InitChain
    /\ InitLimiterIdle
    /\ InitUnitIdle

\* Chain.Execute up to its loop: an empty chain returns at once.
ExecuteBegin(e, plugins, phase) ==
    IF Len(plugins) = 0
    THEN [e EXCEPT !.pc = "returned", !.order = <<>>, !.pos = 0, !.err = FALSE]
    ELSE [e EXCEPT !.pc = "loop", !.order = getExecutionOrder(plugins, phase),
                   !.pos = 1, !.err = FALSE]

DispatchBeforeRequest ==
    /\ exec.pc = "start"
    /\ ctx' = [ctx EXCEPT !.phase = PhaseBeforeRequest]
    /\ exec' = ExecuteBegin(exec, chain, PhaseBeforeRequest)
    /\ UNCHANGED <<chain, reloadVars, limiterVars, unitVars>>

\* One iteration of the loop of Chain.Execute.
ExecutePlugin_NoAbortCheck ==
    /\ exec.pc = "loop"
    /\ IF exec.pos > Len(exec.order)
       THEN /\ exec' = [exec EXCEPT !.pc = "returned"]
            /\ UNCHANGED ctx
       ELSE \E input \in PluginInputs(exec.order[exec.pos], ctx) :
               LET instance == exec.order[exec.pos]
                   outcome == OutcomeOf(instance, input)
                   failed == outcome \in {"error", "abortAndError"}
                   ctx2 == IF outcome \in {"abort", "abortAndError"}
                           THEN Abort(ctx, AbortStatus) ELSE ctx
                   entry == [phase |-> ctx.phase, id |-> instance.config.id,
                             priority |-> instance.priority, outcome |-> outcome,
                             input |-> input, aborted |-> ctx2.aborted]
               IN /\ ctx' = ctx2
                  /\ exec' = IF failed /\ instance.critical
                             THEN [exec EXCEPT !.pc = "returned", !.err = TRUE,
                                               !.log = Append(@, entry)]
                             ELSE [exec EXCEPT !.pos = @ + 1, !.log = Append(@, entry)]
    /\ UNCHANGED <<chain, reloadVars, limiterVars, unitVars>>

ExecutePlugin ==
    /\ exec.pc = "loop"
    /\ IF exec.pos > Len(exec.order)
       THEN /\ exec' = [exec EXCEPT !.pc = "returned"]
            /\ UNCHANGED ctx
       ELSE IF IsAborted(ctx)
       THEN /\ exec' = [exec EXCEPT !.pc = "returned"]
            /\ UNCHANGED ctx
       ELSE \E input \in PluginInputs(exec.order[exec.pos], ctx) :
               LET instance == exec.order[exec.pos]
                   outcome == OutcomeOf(instance, input)
                   failed == outcome \in {"error", "abortAndError"}
                   ctx2 == IF outcome \in {"abort", "abortAndError"}
                           THEN Abort(ctx, AbortStatus) ELSE ctx
                   entry == [phase |-> ctx.phase, id |-> instance.config.id,
                             priority |-> instance.priority, outcome |-> outcome,
                             input |-> input, aborted |-> ctx2.aborted]
               IN /\ ctx' = ctx2
                  /\ exec' = IF failed /\ instance.critical
                             THEN [exec EXCEPT !.pc = "returned", !.err = TRUE,
                                               !.log = Append(@, entry)]
                             ELSE [exec EXCEPT !.pos = @ + 1, !.log = Append(@, entry)]
    /\ UNCHANGED <<chain, reloadVars, limiterVars, unitVars>>

\* The dispatcher after BeforeRequest: a critical plugin error is answered
\* with 500, an abort with the abort status, anything else is forwarded.
DispatchProxy ==
    /\ exec.pc = "returned"
    /\ ctx.phase = PhaseBeforeRequest
    /\ exec' = IF exec.err
               THEN [exec EXCEPT !.pc = "done", !.status = 500]
               ELSE IF IsAborted(ctx)
               THEN [exec EXCEPT !.pc = "proxied", !.status = ctx.abortStatusCode]
               ELSE [exec EXCEPT !.pc = "proxied", !.status = 200, !.forwarded = TRUE]
    /\ UNCHANGED <<chain, ctx, reloadVars, limiterVars, unitVars>>

DispatchAfterResponse ==
    /\ exec.pc = "proxied"
    /\ ctx' = [ctx EXCEPT !.phase = PhaseAfterResponse]
    /\ exec' = ExecuteBegin(exec, chain, PhaseAfterResponse)
    /\ UNCHANGED <<chain, reloadVars, limiterVars, unitVars>>

DispatchFinish ==
    /\ exec.pc = "returned"
    /\ ctx.phase = PhaseAfterResponse
    /\ exec' = [exec EXCEPT !.pc = "done"]
    /\ UNCHANGED <<chain, ctx, reloadVars, limiterVars, unitVars>>

NextChain ==
    \/ DispatchBeforeRequest
    \/ ExecutePlugin
    \/ DispatchProxy
    \/ DispatchAfterResponse
    \/ DispatchFinish

SpecChain == InitChainSpec /\ [][NextChain]_vars

(***************************************************************************)
(* Chain ordering and abort.                                               *)
(***************************************************************************)
LogOf(phase) == SelectSeq(exec.log, LAMBDA e : e.phase = phase)

IdsOf(entries) == [i \in 1..Len(entries) |-> entries[i].id]

ChainIds == [i \in 1..Len(chain) |-> chain[i].config.id]

IsPrefix(s, t) == Len(s) <= Len(t) /\ s = SubSeq(t, 1, Len(s))

\* C9: within one request the BeforeRequest calls occur in ascending priority
\* order along the chain and the AfterResponse calls in the reverse order; a
\* request that no plugin aborts or fails critically runs the whole chain in
\* BeforeRequest and the same plugins exactly reversed in AfterResponse.
C9_PhaseOrder ==
    LET b == LogOf(PhaseBeforeRequest)
        a == LogOf(PhaseAfterResponse)
    IN /\ \A i, j \in 1..Len(b) : i < j => b[i].priority <= b[j].priority
       /\ \A i, j \in 1..Len(a) : i < j => a[i].priority >= a[j].priority
       /\ IsPrefix(IdsOf(b), ChainIds)
       /\ IsPrefix(IdsOf(a), Reverse(ChainIds))
       /\ (exec.pc = "done" /\ ~exec.err /\ ~IsAborted(ctx)) =>
              /\ IdsOf(b) = ChainIds
              /\ IdsOf(a) = Reverse(IdsOf(b))

C9_Witness ==
    /\ exec.pc = "done"
    /\ ~exec.err
    /\ ~IsAborted(ctx)
    /\ [i \in 1..Len(LogOf(PhaseBeforeRequest)) |-> LogOf(PhaseBeforeRequest)[i].priority]
          = <<5, 10, 15>>
    /\ [i \in 1..Len(LogOf(PhaseAfterResponse)) |-> LogOf(PhaseAfterResponse)[i].priority]
          = <<15, 10, 5>>

\* C10: once a plugin has called Abort during BeforeRequest, no plugin later
\* in the BeforeRequest order is executed: only the last BeforeRequest call
\* can be one that left the context aborted.
C10_AbortStopsBeforeRequest ==
    LET b == LogOf(PhaseBeforeRequest)
    IN \A i \in 1..Len(b) : b[i].aborted => i = Len(b)

C10_Witness ==
    LET b == LogOf(PhaseBeforeRequest)
    IN /\ exec.pc = "proxied"
       /\ Len(chain) = 3
       /\ Len(b) = 2
       /\ b[2].aborted
       /\ ~b[1].aborted

(***************************************************************************)
(* Abort and plugin errors.                                                *)
(***************************************************************************)
AbortedInBeforeRequest ==
    \E i \in 1..Len(exec.log) :
        exec.log[i].phase = PhaseBeforeRequest /\ exec.log[i].aborted

\* C11: a request aborted during BeforeRequest and answered with the abort
\* status still runs every plugin of its chain in AfterResponse, in reverse
\* order.
C11_AfterResponseAfterAbort ==
    (exec.pc = "done" /\ exec.status = AbortStatus /\ AbortedInBeforeRequest) =>
        IdsOf(LogOf(PhaseAfterResponse)) = Reverse(ChainIds)

\* C12: a request on which a plugin called Abort during BeforeRequest is
\* never forwarded to the upstream service.
C12_AbortNotForwarded == AbortedInBeforeRequest => ~exec.forwarded

C12_Witness ==
    /\ exec.pc = "done"
    /\ exec.status = AbortStatus
    /\ ~exec.forwarded
    /\ Len(chain) = 3
    /\ Len(LogOf(PhaseBeforeRequest)) = 2
    /\ LogOf(PhaseBeforeRequest)[2].outcome = "abort"

\* The plugin configuration marks the plugin critical.
MarkedCritical(id) ==
    \E p \in ChainCatalog :
        p.id = id /\ "critical" \in DOMAIN p.config /\ p.config.critical

Failed(entry) == entry.outcome \in {"error", "abortAndError"}

\* C13: when a plugin marked critical returns an error, no later plugin of
\* that phase runs and Execute returns the error; in BeforeRequest the
\* request is answered with 500 and not forwarded.
C13_CriticalErrorStops ==
    \A i \in 1..Len(exec.log) :
        (Failed(exec.log[i]) /\ MarkedCritical(exec.log[i].id)) =>
            /\ i = Len(exec.log)
            /\ exec.pc \in {"returned", "done"}
            /\ exec.err
            /\ exec.log[i].phase = PhaseBeforeRequest =>
                   /\ ~exec.forwarded
                   /\ exec.pc = "done" => exec.status = 500

C13_Witness ==
    /\ exec.pc = "done"
    /\ exec.status = 500
    /\ ~exec.forwarded
    /\ Len(chain) = 3
    /\ Len(exec.log) = 2
    /\ Failed(exec.log[2])
    /\ MarkedCritical(exec.log[2].id)

\* C14: when a plugin not marked critical returns an error (without calling
\* Abort), the context is not aborted by it, the next plugin of the phase
\* runs, and Execute returns no error: only a critical plugin's error is
\* ever returned.
C14_NonCriticalErrorContinues ==
    /\ \A phase \in {PhaseBeforeRequest, PhaseAfterResponse} :
          LET p == LogOf(phase)
          IN \A j \in 1..Len(p) :
                (p[j].outcome = "error" /\ ~MarkedCritical(p[j].id)) =>
                    /\ ~p[j].aborted
                    /\ \/ j < Len(p)
                       \/ j = Len(chain)
                       \/ /\ exec.pc = "loop"
                          /\ ctx.phase = phase
                          /\ exec.pos = j + 1
    /\ exec.err =>
          \E i \in 1..Len(exec.log) :
              Failed(exec.log[i]) /\ MarkedCritical(exec.log[i].id)

C14_Witness ==
    /\ exec.pc = "done"
    /\ ~exec.err
    /\ ~IsAborted(ctx)
    /\ exec.forwarded
    /\ exec.status = 200
    /\ Len(chain) = 3
    /\ Len(LogOf(PhaseBeforeRequest)) = 3
    /\ Len(LogOf(PhaseAfterResponse)) = 3
    /\ LogOf(PhaseBeforeRequest)[1].outcome = "error"

\* ------------------------------------------------------------------------
\* Token bucket rate limiter (internal/ratelimit/token_bucket.go)
\* ------------------------------------------------------------------------

\* Real time is counted in ticks of a third of a millisecond, so that a
\* duration of 1/3 s and the phase of an instant within its millisecond can
\* both be told apart from what UnixMilli keeps of them.
TicksPerMs == 3

MaxCapacity == 2

MaxCalls == 6

NumClients == 4

\* Refill rates, in tokens per second.
RefillRates == {2, 3, 500}

\* Token counts are Lua numbers with a fractional part; the model keeps them
\* in thousandths of a token, which is exact: every amount the script adds
\* is elapsed_ms / 1000.0 * refill_rate with an integer refill_rate.
\* tostring prints 14 significant digits, which these amounts never exceed,
\* so what HSET stores is what HGET reads back.
TokenScale == 1000

\* The TTL of tokenBucketConfig, in seconds.
TTLSeconds == 60

Min(a, b) == IF a < b THEN a ELSE b

Max(a, b) == IF a > b THEN a ELSE b

\* ceil(a / b) for a >= 0, b > 0.
CeilDiv(a, b) == (a + b - 1) \div b

\* time.Time.UnixMilli: whole milliseconds, the rest is dropped.
UnixMilli(t) == t \div TicksPerMs

\* A key that was never written, or that Redis has expired.
NoKey == [exists |-> FALSE]

\* What a read of the key sees at real time t (EXPIRE removes it later).
Expire(key, t) == IF key.exists /\ t >= key.expireAt THEN NoKey ELSE key

TokenBucketConfigs ==
    [algorithm : {"token_bucket"},
     Capacity : 1..MaxCapacity,
     RefillRate : RefillRates,
     TTL : {TTLSeconds}]

HasToken_Strict(tokens) == tokens > TokenScale

\* "if tokens >= 1": a whole token is there to consume.
HasToken(tokens) == tokens >= TokenScale

\* tokenBucketLuaScript, run atomically by the store at real time t with
\* the caller's timestamp now (milliseconds).
tokenBucketLuaScript(key, capacity, refill_rate, now, ttl, t) ==
    LET tokens0 == IF key.exists THEN key.tokens ELSE capacity * TokenScale
        last_refill0 == IF key.exists THEN key.last_refill ELSE now
        elapsed_ms == Max(0, now - last_refill0)
        tokens_to_add == elapsed_ms * refill_rate
        tokens1 == Min(capacity * TokenScale, tokens0 + tokens_to_add)
        allowed == HasToken(tokens1)
        tokens == IF allowed THEN tokens1 - TokenScale ELSE tokens1
        tokens_needed == capacity * TokenScale - tokens
        seconds_to_full ==
            IF tokens_needed > 0
            THEN CeilDiv(tokens_needed, refill_rate * TokenScale)
            ELSE 0
        reset_time == (now + seconds_to_full * 1000) \div 1000
    IN [key |-> [exists |-> TRUE,
                 tokens |-> tokens,
                 last_refill |-> now,
                 expireAt |-> t + ttl * 1000 * TicksPerMs],
        allowed |-> allowed,
        remaining |-> tokens \div TokenScale,
        reset_time |-> reset_time]

\* The part of TokenBucket.Allow after it has read the clock: the script is
\* evaluated with the timestamp nowMs and its reply is turned into a
\* TokenBucketResult.
TokenBucketEval(config, key, nowMs, t) ==
    LET result == tokenBucketLuaScript(Expire(key, t), config.Capacity,
                                       config.RefillRate, nowMs, config.TTL, t)
    IN [key |-> result.key,
        result |-> [op |-> "allow",
                    now |-> nowMs,
                    Allowed |-> result.allowed,
                    Remaining |-> result.remaining,
                    RetryAfter |-> IF result.allowed THEN 0
                                   ELSE (1000 * TicksPerMs) \div config.RefillRate]]

IsCall(entry) == entry.op = "allow"

IsSleep(entry) == entry.op = "sleep"

\* One caller, one identifier: TokenBucket.Allow from start to end, with no
\* time passing inside the call.
TBAllow ==
    /\ limiterConfig.algorithm = "token_bucket"
    /\ clients = <<>>
    /\ Len(results) < MaxCalls
    /\ LET r == TokenBucketEval(limiterConfig, redisKey, UnixMilli(clock), clock)
       IN /\ redisKey' = r.key
          /\ results' = Append(results, r.result)
    /\ UNCHANGED <<unitVars, reloadVars, chainVars, noExpiryKey, limiterConfig, clock, clients>>

\* The caller waits k / RefillRate seconds, for an integer k of at most the
\* capacity (time.Sleep between two calls).
TBSleep(k) ==
    /\ limiterConfig.algorithm = "token_bucket"
    /\ clients = <<>>
    /\ Len(results) < MaxCalls
    /\ \A i \in 1..Len(results) : IsCall(results[i])
    /\ clock' = clock + (k * 1000 * TicksPerMs) \div limiterConfig.RefillRate
    /\ results' = Append(results, [op |-> "sleep", k |-> k])
    /\ UNCHANGED <<unitVars, reloadVars, chainVars, noExpiryKey, limiterConfig, redisKey, clients>>

\* A fresh identifier, at any phase of the clock within its millisecond.
InitBucketSpec ==
    /\ InitUnitIdle
    /\ InitStore
    /\ InitGateway
    /\ chain = ChainIdle
    /\ ctx = CtxIdle
    /\ exec = ExecIdle
    /\ limiterConfig \in TokenBucketConfigs
    /\ clock \in 0..(TicksPerMs - 1)
    /\ redisKey = NoKey
    /\ noExpiryKey = NoKey
    /\ clients = <<>>
    /\ results = <<>>

NextBucket ==
    \/ TBAllow
    \/ \E k \in 1..MaxCapacity : k <= limiterConfig.Capacity /\ TBSleep(k)

SpecBucket == InitBucketSpec /\ [][NextBucket]_vars

\* The calls made before the caller's first wait.
FirstBurst ==
    LET n == IF \E i \in 1..Len(results) : IsSleep(results[i])
             THEN (CHOOSE i \in 1..Len(results) : IsSleep(results[i])) - 1
             ELSE Len(results)
    IN SubSeq(results, 1, n)

\* C17: on a fresh identifier, of the calls made one after the other with no
\* time passing, the first Capacity are allowed and every later one is
\* denied with Remaining 0.
C17_BurstThenDenied ==
    limiterConfig.algorithm = "token_bucket" =>
        \A i \in 1..Len(FirstBurst) :
            /\ FirstBurst[i].Allowed <=> i <= limiterConfig.Capacity
            /\ ~FirstBurst[i].Allowed => FirstBurst[i].Remaining = 0

C17_Witness ==
    /\ limiterConfig.algorithm = "token_bucket"
    /\ limiterConfig.Capacity = 2
    /\ Len(FirstBurst) = 3
    /\ FirstBurst[1].Allowed
    /\ FirstBurst[2].Allowed
    /\ ~FirstBurst[3].Allowed
    /\ FirstBurst[3].Remaining = 0

\* The bucket was emptied by the calls before the wait at position s.
EmptiedBefore(s) ==
    /\ s - 1 >= limiterConfig.Capacity
    /\ \A i \in 1..(s - 1) : IsCall(results[i])

\* C18: after the bucket has been emptied and the caller has waited
\* k / RefillRate seconds, the calls that follow without further delay are
\* allowed up to the k-th and denied from the (k+1)-th on.
C18_RefillAfterWait ==
    limiterConfig.algorithm = "token_bucket" =>
        \A s \in 1..Len(results) :
            (IsSleep(results[s]) /\ EmptiedBefore(s)) =>
                \A j \in 1..(Len(results) - s) :
                    results[s + j].Allowed <=> j <= results[s].k

\* ------------------------------------------------------------------------
\* Concurrent callers of TokenBucket.Allow on one identifier
\* ------------------------------------------------------------------------

\* Each caller reads the clock in Go (time.Now) and only then sends the
\* script with that timestamp; the store runs the scripts one at a time, in
\* the order they arrive, which need not be the order of the clock reads.
IdleClient == [pc |-> "idle", now |-> 0]

\* The callers all start within the model's first millisecond and the clock
\* is followed for one millisecond more.
RaceWindowTicks == 2 * TicksPerMs - 1

\* now := time.Now(); nowMs := now.UnixMilli(). Callers are interchangeable,
\* so they are numbered in the order of their clock reads.
TBReadClock(c) ==
    /\ limiterConfig.algorithm = "token_bucket"
    /\ clients[c].pc = "idle"
    /\ \A p \in 1..(c - 1) : clients[p].pc # "idle"
    /\ clients' = [clients EXCEPT ![c] = [pc |-> "sent", now |-> UnixMilli(clock)]]
    /\ UNCHANGED <<unitVars, reloadVars, chainVars, noExpiryKey, limiterConfig, clock, redisKey, results>>

\* The store runs the caller's script.
TBEval(c) ==
    /\ limiterConfig.algorithm = "token_bucket"
    /\ clients[c].pc = "sent"
    /\ LET r == TokenBucketEval(limiterConfig, redisKey, clients[c].now, clock)
       IN /\ redisKey' = r.key
          /\ results' = Append(results, r.result)
    /\ clients' = [clients EXCEPT ![c].pc = "done"]
    /\ UNCHANGED <<unitVars, reloadVars, chainVars, noExpiryKey, limiterConfig, clock>>

\* Time passes.
Tick ==
    /\ clients # <<>>
    /\ clock < RaceWindowTicks
    /\ clock' = clock + 1
    /\ UNCHANGED <<unitVars, reloadVars, chainVars, noExpiryKey, limiterConfig, redisKey, clients, results>>

InitBucketRaceSpec ==
    /\ InitUnitIdle
    /\ InitStore
    /\ InitGateway
    /\ chain = ChainIdle
    /\ ctx = CtxIdle
    /\ exec = ExecIdle
    /\ limiterConfig \in TokenBucketConfigs
    /\ clock \in 0..(TicksPerMs - 1)
    /\ redisKey = NoKey
    /\ noExpiryKey = NoKey
    /\ clients = [c \in 1..NumClients |-> IdleClient]
    /\ results = <<>>

NextBucketRace ==
    \/ \E c \in 1..NumClients : TBReadClock(c)
    \/ \E c \in 1..NumClients : TBEval(c)
    \/ Tick

SpecBucketRace == InitBucketRaceSpec /\ [][NextBucketRace]_vars

AllowedCount == Cardinality({i \in 1..Len(results) : results[i].Allowed})

AllDone == clients # <<>> /\ \A c \in DOMAIN clients : clients[c].pc = "done"

\* Less than one token's worth of time has passed since the identifier was
\* first seen, so no call can be owed to a refill.
NoTokenRefilled == clock * limiterConfig.RefillRate < TokenScale * TicksPerMs

\* C15: when more concurrent callers than the capacity have all been
\* answered, on an identifier that was fresh and within less than one
\* token's refill time, exactly Capacity of them were allowed.
C15_ExactlyCapacity ==
    (/\ limiterConfig.algorithm = "token_bucket"
     /\ AllDone
     /\ limiterConfig.Capacity < Len(clients)
     /\ NoTokenRefilled) =>
        AllowedCount = limiterConfig.Capacity

\* ------------------------------------------------------------------------
\* Sliding window rate limiter (internal/ratelimit/sliding_window.go)
\* ------------------------------------------------------------------------

MaxLimit == 2

MaxSleeps == 2

\* Waits of the caller, in half seconds.
MaxSleepHalves == 4

TicksPerSecond == 1000 * TicksPerMs

\* The windows, in whole seconds: the units the rate-limit plugin documents
\* for its window ("1s", "10s", "1m", ...).
Windows == {1, 2}

\* The identifier is first seen this many seconds after the epoch; what
\* matters is that Unix seconds are positive, as they are on any real clock.
StartSeconds == 10

\* time.Time.Unix: whole seconds, the rest is dropped.
Unix(t) == t \div TicksPerSecond

SlidingWindowConfigs ==
    [algorithm : {"sliding_window"},
     Limit : 1..MaxLimit,
     Window : {sec * TicksPerSecond : sec \in Windows},
     TTL : {TTLSeconds}]

InWindow_Early(score, window_start) == score >= window_start

\* ZREMRANGEBYSCORE key -inf window_start keeps the members whose score is
\* above window_start (the range includes window_start itself).
InWindow(score, window_start) == score > window_start

UnderLimit_Inclusive(current_count, limit) == current_count <= limit

\* "if current_count < limit".
UnderLimit(current_count, limit) == current_count < limit

\* ZADD key score member: the member is added, or its score is replaced.
ZADD(members, score, member) ==
    {e \in members : e.member # member} \cup {[member |-> member, score |-> score]}

\* The score of ZRANGE key 0 0 WITHSCORES, 0 when the set is empty.
OldestScore(members) ==
    IF members = {} THEN 0
    ELSE CHOOSE x \in {e.score : e \in members} :
             \A e \in members : x <= e.score

MembersOf(key) == IF key.exists THEN key.members ELSE {}

\* slidingWindowLuaScript, run atomically by the store at real time t.
slidingWindowLuaScript(key, window_start, current_time, limit, request_id, ttl, t) ==
    LET kept == {e \in MembersOf(key) : InWindow(e.score, window_start)}
        count0 == Cardinality(kept)
        allowed == UnderLimit(count0, limit)
        members == IF allowed THEN ZADD(kept, current_time, request_id) ELSE kept
        current_count == IF allowed THEN count0 + 1 ELSE count0
    IN [key |-> IF members = {} \/ ttl <= 0 THEN NoKey
                ELSE [exists |-> TRUE,
                      members |-> members,
                      expireAt |-> t + ttl * TicksPerSecond],
        allowed |-> allowed,
        current_count |-> current_count,
        oldest_timestamp |-> OldestScore(members)]

\* The part of SlidingWindow.Allow after it has read the clock: now is the
\* instant read, request_id the decimal form of its UnixNano, and t the real
\* time at which the store runs the script and the reply is handled.
SlidingWindowEval(config, key, now, request_id, t) ==
    LET result == slidingWindowLuaScript(Expire(key, t),
                                         Unix(now - config.Window), Unix(now),
                                         config.Limit, request_id, config.TTL, t)
        resetTime == IF result.oldest_timestamp > 0
                     THEN result.oldest_timestamp * TicksPerSecond + config.Window
                     ELSE now + config.Window
    IN [key |-> result.key,
        result |-> [op |-> "allow",
                    now |-> now,
                    Allowed |-> result.allowed,
                    Remaining |-> Max(0, config.Limit - result.current_count),
                    CurrentCount |-> result.current_count,
                    RetryAfter |-> IF ~result.allowed /\ result.oldest_timestamp > 0
                                   THEN Max(0, resetTime - t)
                                   ELSE 0]]

\* One caller, one identifier: SlidingWindow.Allow from start to end. The
\* calls follow one another, so each reads a later nanosecond than the one
\* before, within the same tick: the request id is the tick and the call's
\* rank.
SWAllow ==
    /\ limiterConfig.algorithm = "sliding_window"
    /\ clients = <<>>
    /\ Len(results) < MaxCalls
    /\ LET r == SlidingWindowEval(limiterConfig, redisKey, clock,
                                  <<clock, Len(results)>>, clock)
       IN /\ redisKey' = r.key
          /\ results' = Append(results, r.result)
    /\ UNCHANGED <<unitVars, reloadVars, chainVars, noExpiryKey, limiterConfig, clock, clients>>

\* The caller waits h half seconds.
SWSleep(h) ==
    /\ limiterConfig.algorithm = "sliding_window"
    /\ clients = <<>>
    /\ Len(results) < MaxCalls
    /\ Cardinality({i \in 1..Len(results) : IsSleep(results[i])}) < MaxSleeps
    /\ clock' = clock + h * (TicksPerSecond \div 2)
    /\ results' = Append(results, [op |-> "sleep", d |-> h * (TicksPerSecond \div 2)])
    /\ UNCHANGED <<unitVars, reloadVars, chainVars, noExpiryKey, limiterConfig, redisKey, clients>>

\* A fresh identifier, first seen on a second or half-way through one.
InitWindowSpec ==
    /\ InitUnitIdle
    /\ InitStore
    /\ InitGateway
    /\ chain = ChainIdle
    /\ ctx = CtxIdle
    /\ exec = ExecIdle
    /\ limiterConfig \in SlidingWindowConfigs
    /\ clock \in {StartSeconds * TicksPerSecond,
                  StartSeconds * TicksPerSecond + TicksPerSecond \div 2}
    /\ redisKey = NoKey
    /\ noExpiryKey = NoKey
    /\ clients = <<>>
    /\ results = <<>>

NextWindow ==
    \/ SWAllow
    \/ \E h \in 1..MaxSleepHalves : SWSleep(h)

SpecWindow == InitWindowSpec /\ [][NextWindow]_vars

CallsAfter(s) ==
    LET later == {i \in (s + 1)..Len(results) : IsSleep(results[i])}
        last == IF later = {} THEN Len(results)
                ELSE (CHOOSE i \in later : \A j \in later : i <= j) - 1
    IN SubSeq(results, s + 1, last)

AllowedBefore(s) ==
    Cardinality({i \in 1..(s - 1) : IsCall(results[i]) /\ results[i].Allowed})

SWReadClock(c) ==
    /\ limiterConfig.algorithm = "sliding_window"
    /\ clients[c].pc = "idle"
    /\ \A p \in 1..(c - 1) : clients[p].pc # "idle"
    /\ \E ns \in 0..NumClients :
          /\ IF c = 1 THEN ns = 0
             ELSE ns \in {clients[c - 1].ns, clients[c - 1].ns + 1}
          /\ clients' = [clients EXCEPT
                            ![c] = [pc |-> "sent", now |-> clock, ns |-> ns]]
    /\ UNCHANGED <<unitVars, reloadVars, chainVars, noExpiryKey, limiterConfig, clock, redisKey, results>>

\* requestID := fmt.Sprintf("%d", now.UnixNano()), then the store runs the
\* caller's script.
SWEval(c) ==
    /\ limiterConfig.algorithm = "sliding_window"
    /\ clients[c].pc = "sent"
    /\ LET r == SlidingWindowEval(limiterConfig, redisKey, clients[c].now,
                                  <<clients[c].now, clients[c].ns>>, clock)
       IN /\ redisKey' = r.key
          /\ results' = Append(results, r.result)
    /\ clients' = [clients EXCEPT ![c].pc = "done"]
    /\ UNCHANGED <<unitVars, reloadVars, chainVars, noExpiryKey, limiterConfig, clock>>

InitWindowRaceSpec ==
    /\ InitUnitIdle
    /\ InitStore
    /\ InitGateway
    /\ chain = ChainIdle
    /\ ctx = CtxIdle
    /\ exec = ExecIdle
    /\ limiterConfig \in SlidingWindowConfigs
    /\ clock \in {StartSeconds * TicksPerSecond,
                  StartSeconds * TicksPerSecond + TicksPerSecond \div 2}
    /\ redisKey = NoKey
    /\ noExpiryKey = NoKey
    /\ clients = [c \in 1..NumClients |-> [pc |-> "idle", now |-> 0, ns |-> 0]]
    /\ results = <<>>

NextWindowRace ==
    \/ \E c \in 1..NumClients : SWReadClock(c)
    \/ \E c \in 1..NumClients : SWEval(c)

SpecWindowRace == InitWindowRaceSpec /\ [][NextWindowRace]_vars

\* C16: when more concurrent callers than the limit have all been answered,
\* on an identifier that was fresh, exactly Limit of them were allowed and
\* the identifier's set holds Limit members.
C16_ExactlyLimit ==
    (/\ limiterConfig.algorithm = "sliding_window"
     /\ AllDone
     /\ limiterConfig.Limit < Len(clients)) =>
        /\ AllowedCount = limiterConfig.Limit
        /\ Cardinality(MembersOf(redisKey)) = limiterConfig.Limit

\* ------------------------------------------------------------------------
\* Rate-limit store failures in the chain
\* ------------------------------------------------------------------------

StoreFailed(entry) == entry.input = "storeError"

\* C21: when the rate-limit plugin's store call fails, a critical plugin
\* aborts the request and the client sees 503; a non-critical plugin lets
\* the request through: the call does not abort the request and no error
\* of that plugin is returned by the chain.
C21_StoreFailurePolicy ==
    \A i \in 1..Len(exec.log) :
        StoreFailed(exec.log[i]) =>
            IF MarkedCritical(exec.log[i].id)
            THEN /\ exec.log[i].aborted
                 /\ exec.pc = "done" => exec.status = 503
            ELSE /\ ~exec.log[i].aborted
                 /\ exec.log[i].outcome = "ok"
                 /\ exec.err => i < Len(exec.log)

\* ------------------------------------------------------------------------
\* The limiters as the rate-limit plugin configures them, and key expiry
\* ------------------------------------------------------------------------

\* RateLimitConfig: algorithm, limit and window (in whole seconds). For the
\* token bucket the limit is a multiple of the window, so that the refill
\* rate limit / window is a whole number of tokens per second and the
\* model's token arithmetic stays exact.
RateLimitConfigs ==
    {c \in [Algorithm : {"token-bucket", "sliding-window"},
            Limit : 1..MaxLimit,
            Window : Windows] :
        c.Algorithm = "token-bucket" => c.Limit % c.Window = 0}

WindowTTL_None(window) == 0

\* "TTL: windowDuration * 2", in seconds.
WindowTTL(window) == window * 2

\* ratelimit.CalculateRefillRate.
CalculateRefillRate(limit, window) == limit \div window

\* The limiter NewRateLimitPlugin builds for a configuration.
NewRateLimitPlugin(config) ==
    IF config.Algorithm = "token-bucket"
    THEN [algorithm |-> "token_bucket",
          Capacity |-> config.Limit,
          RefillRate |-> CalculateRefillRate(config.Limit, config.Window),
          TTL |-> WindowTTL(config.Window)]
    ELSE [algorithm |-> "sliding_window",
          Limit |-> config.Limit,
          Window |-> config.Window * TicksPerSecond,
          TTL |-> WindowTTL(config.Window)]

\* Allow of the configured limiter on the key as the store holds it at t.
LimiterEval(config, key, t, rank) ==
    IF config.algorithm = "token_bucket"
    THEN TokenBucketEval(config, key, UnixMilli(t), t)
    ELSE SlidingWindowEval(config, key, t, <<t, rank>>, t)

\* The key as a store without expiry would hold it.
KeptAlive(key, t) == IF key.exists THEN [key EXCEPT !.expireAt = t + 1] ELSE key

\* One call of the plugin's limiter, and the same call on the reference
\* store.
RLAllow ==
    /\ limiterConfig.algorithm \in {"token_bucket", "sliding_window"}
    /\ clients = <<>>
    /\ Len(results) < MaxCalls
    /\ LET r == LimiterEval(limiterConfig, redisKey, clock, Len(results))
           n == LimiterEval(limiterConfig, KeptAlive(noExpiryKey, clock), clock,
                            Len(results))
       IN /\ redisKey' = r.key
          /\ noExpiryKey' = n.key
          /\ results' = Append(results,
                               [op |-> "allow",
                                result |-> r.result,
                                noExpiry |-> n.result,
                                expired |-> redisKey.exists
                                            /\ ~Expire(redisKey, clock).exists])
    /\ UNCHANGED <<unitVars, reloadVars, chainVars, limiterConfig, clock, clients>>

\* The caller waits h half seconds.
RLSleep(h) ==
    /\ limiterConfig.algorithm \in {"token_bucket", "sliding_window"}
    /\ clients = <<>>
    /\ Len(results) < MaxCalls
    /\ Cardinality({i \in 1..Len(results) : IsSleep(results[i])}) < MaxSleeps
    /\ clock' = clock + h * (TicksPerSecond \div 2)
    /\ results' = Append(results, [op |-> "sleep", d |-> h * (TicksPerSecond \div 2)])
    /\ UNCHANGED <<unitVars, reloadVars, chainVars, limiterConfig, redisKey, noExpiryKey, clients>>

InitExpirySpec ==
    /\ InitUnitIdle
    /\ InitStore
    /\ InitGateway
    /\ chain = ChainIdle
    /\ ctx = CtxIdle
    /\ exec = ExecIdle
    /\ \E c \in RateLimitConfigs : limiterConfig = NewRateLimitPlugin(c)
    /\ clock \in {StartSeconds * TicksPerSecond,
                  StartSeconds * TicksPerSecond + TicksPerSecond \div 2}
    /\ redisKey = NoKey
    /\ noExpiryKey = NoKey
    /\ clients = <<>>
    /\ results = <<>>

NextExpiry ==
    \/ RLAllow
    \/ \E h \in 1..MaxSleepHalves : RLSleep(h)

SpecExpiry == InitExpirySpec /\ [][NextExpiry]_vars

MatchedRouteId == "r1"

MatchedServiceId == "s1"

InChain(inst) == \E j \in 1..Len(chain) : chain[j] = inst

ScopeAdmits(inst) ==
    \/ inst.scope = PluginScopeGlobal
    \/ inst.scope = PluginScopeService /\ inst.config.serviceId = MatchedServiceId
    \/ inst.scope = PluginScopeRoute /\ inst.config.routeId = MatchedRouteId

\* C23: the chain holds exactly the instances of the plugin-instance list
\* whose scope admits the matched route and service: global ones, service
\* ones of that service, route ones of that route, and no consumer one.
C23_ScopeFilter ==
    /\ \A i \in 1..Len(GetInstances) :
          InChain(GetInstances[i]) <=> ScopeAdmits(GetInstances[i])
    /\ \A j \in 1..Len(chain) : \E i \in 1..Len(GetInstances) : GetInstances[i] = chain[j]
    /\ \A j, k \in 1..Len(chain) : j # k => chain[j] # chain[k]

C23_Witness ==
    /\ exec.pc = "done"
    /\ Len(GetInstances) = 3
    /\ Len(chain) = 1
    /\ chain[1].scope = PluginScopeRoute
    /\ \E i \in 1..3 : GetInstances[i].scope = PluginScopeConsumer
    /\ \E i \in 1..3 : /\ GetInstances[i].scope = PluginScopeRoute
                       /\ GetInstances[i].config.routeId # MatchedRouteId

\* Position of an instance in the plugin-instance list.
ListIndex(inst) == CHOOSE i \in 1..Len(GetInstances) : GetInstances[i] = inst

MaxInserts == 3

PatAB == <<"/", "a", "/", "b">>
PatABSlash == <<"/", "a", "/", "b", "/">>
PatAX == <<"/", "a", "/", ":", "x">>
PatAW == <<"/", "a", "/", "*">>
PatXB == <<"/", ":", "x", "/", "b">>
PatAYC == <<"/", "a", "/", ":", "y", "/", "c">>
PatXY == <<"/", ":", "x", "/", ":", "y">>
PatXXC == <<"/", ":", "x", "/", ":", "x", "/", "c">>

Patterns == {PatAB, PatABSlash, PatAX, PatAW, PatXB, PatAYC, PatXY, PatXXC}

Paths ==
    {<<"/", "a">>,
     <<"/", "a", "/", "b">>,
     <<"/", "a", "/", "b", "/">>,
     <<"/", "a", "/", "c">>,
     <<"/", "c", "/", "b">>,
     <<"/", "a", "/", "c", "/", "d">>,
     <<"/", "a", "/", "b", "/", "c">>}

TreeRouteIds == <<"t1", "t2", "t3", "t4", "t5", "t6">>

\* tree.Insert(pattern, route) with a fresh route.  A search result is kept
\* only while the tree it was obtained from is unchanged.
TreeInsert ==
    /\ Len(inserted) < MaxInserts
    /\ \E pattern \in Patterns :
          LET route == Route(TreeRouteIds[Len(inserted) + 1], "s1", <<pattern>>,
                             <<>>, <<>>, TRUE)
          IN /\ tree' = Insert(tree, pattern, route)
             /\ inserted' = Append(inserted, [pattern |-> pattern, route |-> route])
    /\ found' = [searched |-> FALSE]
    /\ UNCHANGED <<reloadVars, chainVars, limiterVars, matchRouter, matched, rw, edgeVars>>

\* route, params := tree.Search(path)
TreeSearch ==
    /\ \E path \in Paths :
          LET r == Search(tree, path)
          IN found' = [searched |-> TRUE, path |-> path, route |-> r.route,
                       params |-> r.params]
    /\ UNCHANGED <<reloadVars, chainVars, limiterVars, tree, inserted, matchRouter,
                   matched, rw, edgeVars>>

InitTreeSpec ==
    /\ InitStore
    /\ InitGateway
    /\ chain = ChainIdle
    /\ ctx = CtxIdle
    /\ exec = ExecIdle
    /\ InitLimiterIdle
    /\ InitUnitIdle

NextTree ==
    \/ TreeInsert
    \/ TreeSearch

SpecTree == InitTreeSpec /\ [][NextTree]_vars

\* What a pattern and a path are, read independently of the index: their
\* segments, and whether the pattern admits the path segment by segment.
SegmentsOf(p) ==
    LET q == IF Len(p) > 1 /\ p[Len(p)] = "/" THEN SubSeq(p, 1, Len(p) - 1) ELSE p
    IN Split(Tail(q), "/")

IsParamSegment(seg) == seg # <<>> /\ seg[1] = ":"

IsWildcardSegment(seg) == seg = <<"*">>

RECURSIVE AdmitsFrom(_, _, _)
AdmitsFrom(ps, ss, i) ==
    IF i > Len(ps) THEN i > Len(ss)
    ELSE IF i > Len(ss) THEN FALSE
    ELSE IF IsWildcardSegment(ps[i]) THEN i = Len(ps)
    ELSE IF IsParamSegment(ps[i]) THEN AdmitsFrom(ps, ss, i + 1)
    ELSE ps[i] = ss[i] /\ AdmitsFrom(ps, ss, i + 1)

Admits(pattern, path) == AdmitsFrom(SegmentsOf(pattern), SegmentsOf(path), 1)

SamePattern(p, q) == SegmentsOf(p) = SegmentsOf(q)

\* The i-th insert is still in force: no later insert names its pattern.
NotOverwritten(i) ==
    \A j \in (i + 1)..Len(inserted) :
        ~SamePattern(inserted[j].pattern, inserted[i].pattern)

\* C25: a search of a path that the i-th inserted pattern admits, and no
\* other inserted pattern does, returns the route of the i-th insert,
\* whatever was inserted after it, provided its pattern was not inserted
\* again.
C25_InsertThenSearch ==
    found.searched =>
        \A i \in 1..Len(inserted) :
            ( /\ NotOverwritten(i)
              /\ Admits(inserted[i].pattern, found.path)
              /\ \A j \in 1..Len(inserted) :
                    Admits(inserted[j].pattern, found.path) =>
                        SamePattern(inserted[j].pattern, inserted[i].pattern) )
            => found.route = inserted[i].route

C25_Witness ==
    /\ found.searched
    /\ Len(inserted) = 3
    /\ inserted[1].pattern = PatAX
    /\ inserted[2].pattern = PatAYC
    /\ inserted[3].pattern = PatXY
    /\ found.path = <<"/", "a", "/", "c">>
    /\ found.route = inserted[1].route

\* The inserts still in force whose pattern admits the searched path.
Admitting ==
    {i \in 1..Len(inserted) :
        NotOverwritten(i) /\ Admits(inserted[i].pattern, found.path)}

SegmentRank(seg) ==
    IF IsWildcardSegment(seg) THEN 1 ELSE IF IsParamSegment(seg) THEN 2 ELSE 3

\* A pattern is a wildcard pattern when it ends in "*", a parameter pattern
\* when it has a parameter segment and no wildcard, and static otherwise.
PatternRank(pattern) ==
    LET ps == SegmentsOf(pattern)
        ranks == {SegmentRank(ps[k]) : k \in 1..Len(ps)}
    IN IF 1 \in ranks THEN 1 ELSE IF 2 \in ranks THEN 2 ELSE 3

RECURSIVE FirstDifference(_, _, _)
FirstDifference(ps, qs, k) ==
    IF k > Len(ps) \/ k > Len(qs) THEN k
    ELSE IF ps[k] # qs[k] THEN k
    ELSE FirstDifference(ps, qs, k + 1)

IsWildcardPattern(pattern) ==
    LET ps == SegmentsOf(pattern)
    IN Len(ps) >= 1 /\ IsWildcardSegment(ps[Len(ps)])

\* The path begins with segments that the pattern's segments before its "*"
\* admit.
PrefixAdmits(pattern, path) ==
    LET ps == SegmentsOf(pattern)
        ss == SegmentsOf(path)
        n == Len(ps) - 1
    IN Len(ss) >= n /\ AdmitsFrom(SubSeq(ps, 1, n), SubSeq(ss, 1, n), 1)

\* C28: the route of a pattern ending in "*" is returned only for a path
\* with at least one segment after the pattern's prefix, and then "*" is
\* bound to all the segments after the prefix joined by "/"; it is returned
\* for every such path that no other pattern admits; for the bare prefix it
\* is not returned.
C28_WildcardRemainder ==
    found.searched =>
        \A i \in 1..Len(inserted) :
            (IsWildcardPattern(inserted[i].pattern) /\ NotOverwritten(i)) =>
                LET ps == SegmentsOf(inserted[i].pattern)
                    ss == SegmentsOf(found.path)
                    further == Len(ss) - (Len(ps) - 1)
                    mine == found.route = inserted[i].route
                IN /\ mine =>
                        /\ PrefixAdmits(inserted[i].pattern, found.path)
                        /\ further >= 1
                        /\ <<"*">> \in DOMAIN found.params
                        /\ found.params[<<"*">>] = Join(SubSeq(ss, Len(ps), Len(ss)), "/")
                   /\ (PrefixAdmits(inserted[i].pattern, found.path) /\ further = 0)
                        => ~mine
                   /\ ( /\ PrefixAdmits(inserted[i].pattern, found.path)
                        /\ further >= 1
                        /\ \A j \in Admitting :
                              SamePattern(inserted[j].pattern, inserted[i].pattern) )
                        => mine

C28_Witness ==
    /\ found.searched
    /\ Len(inserted) = 2
    /\ inserted[1].pattern = PatAYC
    /\ inserted[2].pattern = PatAW
    /\ found.path = <<"/", "a", "/", "c", "/", "d">>
    /\ found.route = inserted[2].route
    /\ found.params[<<"*">>] = <<"c", "/", "d">>

\* The bare prefix of a wildcard pattern finds nothing.
C28_WitnessBarePrefix ==
    /\ found.searched
    /\ Len(inserted) = 1
    /\ inserted[1].pattern = PatAW
    /\ found.path = <<"/", "a">>
    /\ found.route = NoRoute

\* Positions of a pattern's parameter segments, and the names they carry.
ParamPositions(ps) == {k \in 1..Len(ps) : IsParamSegment(ps[k])}

ParamNameAt(ps, k) == Tail(ps[k])

DistinctParamNames(ps) ==
    \A j, k \in ParamPositions(ps) : j # k => ParamNameAt(ps, j) # ParamNameAt(ps, k)

\* C29: a successful search returns one binding for each parameter segment
\* of the matched pattern (whose parameter names differ from each other),
\* bound to the path's segment at that position, and besides the "*" of a
\* wildcard pattern no other binding.
C29_ExactBindings ==
    (found.searched /\ found.route # NoRoute) =>
        \A i \in 1..Len(inserted) :
            (found.route = inserted[i].route
                /\ DistinctParamNames(SegmentsOf(inserted[i].pattern))) =>
                LET ps == SegmentsOf(inserted[i].pattern)
                    ss == SegmentsOf(found.path)
                    names == {ParamNameAt(ps, k) : k \in ParamPositions(ps)}
                IN /\ DOMAIN found.params =
                        names \cup (IF IsWildcardPattern(inserted[i].pattern)
                                    THEN {<<"*">>} ELSE {})
                   /\ \A k \in ParamPositions(ps) :
                        found.params[ParamNameAt(ps, k)] = ss[k]

(***************************************************************************)
(* Router.Match on its own: a router built by NewRouter from a route and a *)
(* service list, and requests that differ in path, method and host.        *)
(***************************************************************************)
MaxRoutes == 2

StatusNotFound == 404

HostAB == <<"a", ".", "b">>
HostB == <<"b">>
HostCB == <<"c", "b">>
HostABPort == <<"a", ".", "b", ":", "8">>
HostStarB == <<"*", ".", "b">>

MatchRoutes ==
    {Route("m1", "s1", <<PathA>>, <<"GET">>, <<>>, TRUE),
     Route("m2", "s1", <<PathA>>, <<>>, <<HostStarB>>, TRUE),
     Route("m3", "s2", <<PathAParam>>, <<"GET", "POST">>, <<HostAB>>, TRUE),
     Route("m4", "s3", <<PathAParam>>, <<>>, <<>>, TRUE)}

MatchRouteTables ==
    {t \in UNION {[1..n -> MatchRoutes] : n \in 1..MaxRoutes} :
        \A i, j \in 1..Len(t) : i # j => t[i] # t[j]}

MatchServiceTables ==
    {<<Service("s1", TRUE)>>, <<Service("s1", FALSE)>>, <<Service("s2", TRUE)>>,
     <<Service("s1", TRUE), Service("s2", TRUE)>>,
     <<Service("s1", FALSE), Service("s2", TRUE)>>}

MatchRequests ==
    {Request(path, method, host) :
        path \in {PathA, PathA1},
        method \in {"GET", "POST", "DELETE"},
        host \in {HostAB, HostB, HostCB, HostABPort}}

\* What the proxy answers for the outcome of Match: 404 for every error, and
\* no status yet when a route was matched.
ServeHTTPStatus(result) == IF ~result.ok THEN StatusNotFound ELSE 0

\* match, err := p.router.Match(r)
RouterMatch ==
    /\ \E req \in MatchRequests :
          LET result == Match(matchRouter, req)
          IN matched' = [called |-> TRUE, req |-> req, result |-> result,
                         status |-> ServeHTTPStatus(result)]
    /\ UNCHANGED <<reloadVars, chainVars, limiterVars, tree, inserted, found,
                   matchRouter, rw, edgeVars>>

InitMatchSpec ==
    /\ InitStore
    /\ InitGateway
    /\ chain = ChainIdle
    /\ ctx = CtxIdle
    /\ exec = ExecIdle
    /\ InitLimiterIdle
    /\ tree = NewRadixTree
    /\ inserted = <<>>
    /\ found = [searched |-> FALSE]
    /\ \E routes \in MatchRouteTables, services \in MatchServiceTables :
          matchRouter = NewRouter(routes, services)
    /\ matched = [called |-> FALSE]
    /\ rw = [statusCode |-> 0]
    /\ InitEdgeIdle

NextMatch == RouterMatch

SpecMatch == InitMatchSpec /\ [][NextMatch]_vars

\* The request's method and host read against a route's lists.
MethodListed(route, method) ==
    route.methods = <<>> \/ \E k \in 1..Len(route.methods) : route.methods[k] = method

PortStripped(host) ==
    IF \E k \in 1..Len(host) : host[k] = ":"
    THEN SubSeq(host, 1, (CHOOSE k \in 1..Len(host) :
                             host[k] = ":" /\ \A m \in 1..(k - 1) : host[m] # ":") - 1)
    ELSE host

HostAdmitted(entry, host) ==
    \/ host = entry
    \/ /\ Len(entry) >= 2
       /\ entry[1] = "*"
       /\ entry[2] = "."
       /\ LET suffix == SubSeq(entry, 3, Len(entry))
          IN \/ host = suffix
             \/ /\ Len(host) > Len(suffix)
                /\ SubSeq(host, Len(host) - Len(suffix), Len(host)) = <<".">> \o suffix

HostListed(route, requestHost) ==
    route.hosts = <<>> \/
    \E k \in 1..Len(route.hosts) : HostAdmitted(route.hosts[k], PortStripped(requestHost))

\* C27: when Match succeeds, the route it returns is one of the router's
\* routes, lists the request's method (or no method), admits the request's
\* host (or lists none), and comes with its service, which the snapshot
\* holds enabled; when Match fails the answer is 404 Not Found, whatever
\* made it fail.
C27_MatchOrNotFound ==
    matched.called =>
        IF matched.result.ok
        THEN LET route == matched.result.route
             IN /\ \E k \in 1..Len(matchRouter.routes) : matchRouter.routes[k] = route
                /\ MethodListed(route, matched.req.method)
                /\ HostListed(route, matched.req.host)
                /\ route.serviceId \in DOMAIN matchRouter.services
                /\ matchRouter.services[route.serviceId].enabled
                /\ matched.result.service = matchRouter.services[route.serviceId]
        ELSE matched.status = StatusNotFound

\* A request whose path has a route that does not list its method: 404.
C27_Witness ==
    /\ matched.called
    /\ ~matched.result.ok
    /\ matched.status = StatusNotFound
    /\ matched.req.path = PathA
    /\ matched.req.method = "DELETE"
    /\ Len(matchRouter.routes) = 1
    /\ matchRouter.routes[1].id = "m1"
    /\ "s1" \in DOMAIN matchRouter.services
    /\ matchRouter.services["s1"].enabled

\* A request admitted through a "*.suffix" host entry, its port stripped.
C27_WitnessMatched ==
    /\ matched.called
    /\ matched.result.ok
    /\ matched.result.route.id = "m2"
    /\ matched.req.host = HostABPort

(***************************************************************************)
(* ResponseWriter (plugin/context.go): the wrapper around the server's     *)
(* http.ResponseWriter.  The wrapped writer is modelled by what reaches    *)
(* it: the status codes passed to its WriteHeader and the bytes written.   *)
(***************************************************************************)
MaxWriterCalls == 3

StatusOK == 200

StatusCodes == {StatusOK, StatusNotFound, AbortStatus}

BodySizes == {0, 1}

NewResponseWriter ==
    [statusCode |-> StatusOK, written |-> FALSE, bodySize |-> 0, headersSent |-> FALSE,
     underlying |-> [headers |-> <<>>, body |-> 0],
     calls |-> <<>>]

WriteHeader_NoGuard(rwr, statusCode) ==
    [rwr EXCEPT !.statusCode = statusCode,
                !.written = TRUE,
                !.headersSent = TRUE,
                !.underlying.headers = Append(@, statusCode)]

WriteHeader(rwr, statusCode) ==
    IF rwr.written THEN rwr
    ELSE [rwr EXCEPT !.statusCode = statusCode,
                     !.written = TRUE,
                     !.headersSent = TRUE,
                     !.underlying.headers = Append(@, statusCode)]

Write(rwr, n) ==
    LET sent == IF ~rwr.written THEN WriteHeader(rwr, StatusOK) ELSE rwr
    IN [sent EXCEPT !.underlying.body = @ + n, !.bodySize = @ + n]

\* A handler or plugin calls w.WriteHeader(statusCode).
CallWriteHeader ==
    /\ Len(rw.calls) < MaxWriterCalls
    /\ \E statusCode \in StatusCodes :
          rw' = [WriteHeader(rw, statusCode) EXCEPT
                    !.calls = Append(@, [op |-> "WriteHeader", code |-> statusCode])]
    /\ UNCHANGED <<reloadVars, chainVars, limiterVars, tree, inserted, found,
                   matchRouter, matched, edgeVars>>

\* A handler or plugin calls w.Write(b) with len(b) = n.
CallWrite ==
    /\ Len(rw.calls) < MaxWriterCalls
    /\ \E n \in BodySizes :
          rw' = [Write(rw, n) EXCEPT
                    !.calls = Append(@, [op |-> "Write", code |-> n])]
    /\ UNCHANGED <<reloadVars, chainVars, limiterVars, tree, inserted, found,
                   matchRouter, matched, edgeVars>>

InitWriterSpec ==
    /\ InitStore
    /\ InitGateway
    /\ chain = ChainIdle
    /\ ctx = CtxIdle
    /\ exec = ExecIdle
    /\ InitLimiterIdle
    /\ tree = NewRadixTree
    /\ inserted = <<>>
    /\ found = [searched |-> FALSE]
    /\ matchRouter = NewRouter(<<>>, <<>>)
    /\ matched = [called |-> FALSE]
    /\ rw = NewResponseWriter
    /\ InitEdgeIdle

NextWriter ==
    \/ CallWriteHeader
    \/ CallWrite

SpecWriter == InitWriterSpec /\ [][NextWriter]_vars

\* The status the first call fixes: its code, or 200 when it was a Write.
FirstStatus ==
    IF Head(rw.calls).op = "WriteHeader" THEN Head(rw.calls).code ELSE StatusOK

\* C30: after any sequence of WriteHeader and Write calls the recorded
\* status is the one the first call fixed, and the wrapped writer has been
\* handed that status and no other.
C30_StatusWriteOnce ==
    rw.calls # <<>> =>
        /\ rw.statusCode = FirstStatus
        /\ rw.underlying.headers = <<FirstStatus>>

C30_Witness ==
    /\ Len(rw.calls) = 3
    /\ rw.calls[1] = [op |-> "WriteHeader", code |-> StatusNotFound]
    /\ rw.calls[2] = [op |-> "Write", code |-> 1]
    /\ rw.calls[3] = [op |-> "WriteHeader", code |-> AbortStatus]
    /\ rw.statusCode = StatusNotFound
    /\ rw.underlying.body = 1

(***************************************************************************)
(* Proxy (internal/proxy/proxy.go): one matched request on its way to the  *)
(* upstream and back.  Header values and addresses are strings of tokens   *)
(* (an address, ",", " ", ":", a port); paths are strings of characters.   *)
(* The client's side is the server's http.ResponseWriter: it puts the      *)
(* first status it is handed on the wire and appends every body write.     *)
(***************************************************************************)
MaxChunks == 2

StatusBadGateway == 502

TrimSpace(str) == TrimRight(TrimLeft(str, " "), " ")

RECURSIVE LastIndexOf(_, _, _)
LastIndexOf(str, c, i) ==
    IF i < 1 THEN 0
    ELSE IF str[i] = c THEN i
    ELSE LastIndexOf(str, c, i - 1)

\* getClientIP: the first element of X-Forwarded-For, else X-Real-IP, else
\* the remote address up to its last ":".  Go's indices count from 0, so
\* "idx > 0" is a position from the second on.
getClientIP(r) ==
    IF r.XForwardedFor # <<>>
    THEN LET idx == IndexOf(r.XForwardedFor, ",", 1)
         IN IF idx > 1 THEN TrimSpace(SubSeq(r.XForwardedFor, 1, idx - 1))
            ELSE TrimSpace(r.XForwardedFor)
    ELSE IF r.XRealIP # <<>> THEN TrimSpace(r.XRealIP)
    ELSE LET idx == LastIndexOf(r.RemoteAddr, ":", Len(r.RemoteAddr))
         IN IF idx > 1 THEN SubSeq(r.RemoteAddr, 1, idx - 1) ELSE r.RemoteAddr

\* copyHeaders for the two headers followed here; neither is hop-by-hop.
copyHeaders(r) == [XForwardedFor |-> r.XForwardedFor, XRealIP |-> r.XRealIP]

setProxyHeaders(upstreamHeader, originalReq) ==
    LET clientIP == getClientIP(originalReq)
    IN IF clientIP = <<>> THEN upstreamHeader
       ELSE [XForwardedFor |->
                IF upstreamHeader.XForwardedFor # <<>>
                THEN upstreamHeader.XForwardedFor \o <<",", " ">> \o clientIP
                ELSE clientIP,
             XRealIP |-> clientIP]

\* strings.TrimPrefix of the first of the route's paths that is a prefix.
RECURSIVE stripFirstPrefix(_, _, _)
stripFirstPrefix(path, routePaths, i) ==
    IF i > Len(routePaths) THEN path
    ELSE IF HasPrefix(path, routePaths[i])
         THEN SubSeq(path, Len(routePaths[i]) + 1, Len(path))
         ELSE stripFirstPrefix(path, routePaths, i + 1)

\* buildUpstreamURL, the path it appends to the target URL.
buildUpstreamURL(path, route) ==
    LET stripped == IF route.StripPath THEN stripFirstPrefix(path, route.Paths, 1)
                    ELSE path
    IN IF HasPrefix(stripped, <<"/">>) THEN stripped ELSE <<"/">> \o stripped

isHeadersSent(client) == FALSE

\* The server's response writer: its WriteHeader and Write, and http.Error.
ClientNew == [wroteHeader |-> FALSE, status |-> 0, headerCalls |-> <<>>, body |-> <<>>]

ClientWriteHeader(client, code) ==
    IF client.wroteHeader
    THEN [client EXCEPT !.headerCalls = Append(@, code)]
    ELSE [client EXCEPT !.wroteHeader = TRUE, !.status = code,
                        !.headerCalls = Append(@, code)]

ClientWrite(client, chunk) ==
    LET sent == IF client.wroteHeader THEN client ELSE ClientWriteHeader(client, StatusOK)
    IN [sent EXCEPT !.body = Append(@, chunk)]

httpError(client, code) == ClientWrite(ClientWriteHeader(client, code), "error")

ProxyAddrs == {<<>>, <<"1.1.1.1">>, <<"1.1.1.1", ",", " ", "3.3.3.3">>}

ProxyRealIPs == {<<>>, <<"9.9.9.9">>}

ProxyRemoteAddr == <<"2.2.2.2", ":", "5000">>

StripA == <<"/", "a">>
StripAV == <<"/", "a", "/", "v">>

ProxyRoutePaths == {<<StripA>>, <<StripAV>>, <<StripA, StripAV>>, <<StripAV, StripA>>}

\* Proxy.ServeHTTP up to the upstream call: the request has matched one of
\* the route's paths; the upstream URL and the upstream request's headers
\* are built.
ProxyServe ==
    /\ exchange.pc = "off"
    /\ \E xff \in ProxyAddrs, xri \in ProxyRealIPs, paths \in ProxyRoutePaths,
          k \in 1..2, strip \in BOOLEAN :
          /\ k <= Len(paths)
          /\ LET r == [Path |-> paths[k], XForwardedFor |-> xff, XRealIP |-> xri,
                       RemoteAddr |-> ProxyRemoteAddr]
                 route == [Paths |-> paths, StripPath |-> strip]
             IN exchange' = [pc |-> "upstream", r |-> r, route |-> route,
                             upstreamPath |-> buildUpstreamURL(r.Path, route),
                             upstreamHeader |-> setProxyHeaders(copyHeaders(r), r),
                             client |-> ClientNew, copied |-> 0, failed |-> None]
    /\ UNCHANGED <<reloadVars, chainVars, limiterVars, tree, inserted, found,
                   matchRouter, matched, rw, cors>>

\* client.Do returns an error: proxyRequest returns it and ServeHTTP answers.
UpstreamFail ==
    /\ exchange.pc = "upstream"
    /\ exchange' = [exchange EXCEPT
          !.pc = "done",
          !.failed = "connect",
          !.client = IF ~isHeadersSent(exchange.client)
                     THEN httpError(exchange.client, StatusBadGateway)
                     ELSE exchange.client]
    /\ UNCHANGED <<reloadVars, chainVars, limiterVars, tree, inserted, found,
                   matchRouter, matched, rw, cors>>

\* The upstream answers: w.WriteHeader(resp.StatusCode).
UpstreamRespond ==
    /\ exchange.pc = "upstream"
    /\ \E code \in {StatusOK, StatusNotFound} :
          exchange' = [exchange EXCEPT
              !.pc = "copy",
              !.client = ClientWriteHeader(exchange.client, code)]
    /\ UNCHANGED <<reloadVars, chainVars, limiterVars, tree, inserted, found,
                   matchRouter, matched, rw, cors>>

\* io.Copy hands one more piece of the upstream body to the client.
CopyChunk ==
    /\ exchange.pc = "copy"
    /\ exchange.copied < MaxChunks
    /\ exchange' = [exchange EXCEPT
          !.copied = @ + 1,
          !.client = ClientWrite(exchange.client, "upstream")]
    /\ UNCHANGED <<reloadVars, chainVars, limiterVars, tree, inserted, found,
                   matchRouter, matched, rw, cors>>

\* io.Copy returns an error: proxyRequest returns it and ServeHTTP answers.
CopyFail ==
    /\ exchange.pc = "copy"
    /\ exchange' = [exchange EXCEPT
          !.pc = "done",
          !.failed = "copy",
          !.client = IF ~isHeadersSent(exchange.client)
                     THEN httpError(exchange.client, StatusBadGateway)
                     ELSE exchange.client]
    /\ UNCHANGED <<reloadVars, chainVars, limiterVars, tree, inserted, found,
                   matchRouter, matched, rw, cors>>

\* io.Copy reaches the end of the upstream body.
CopyDone ==
    /\ exchange.pc = "copy"
    /\ exchange' = [exchange EXCEPT !.pc = "done"]
    /\ UNCHANGED <<reloadVars, chainVars, limiterVars, tree, inserted, found,
                   matchRouter, matched, rw, cors>>

InitProxySpec ==
    /\ InitStore
    /\ InitGateway
    /\ chain = ChainIdle
    /\ ctx = CtxIdle
    /\ exec = ExecIdle
    /\ InitLimiterIdle
    /\ InitUnitIdle

NextProxy ==
    \/ ProxyServe
    \/ UpstreamFail
    \/ UpstreamRespond
    \/ CopyChunk
    \/ CopyFail
    \/ CopyDone

SpecProxy == InitProxySpec /\ [][NextProxy]_vars

\* The directly connected peer: the remote address without its port.
RemotePeer(r) == <<Head(r.RemoteAddr)>>

\* C31: when the inbound request carries X-Forwarded-For, the upstream
\* request's X-Forwarded-For is the inbound value, ", ", and the address of
\* the directly connected peer.
C31_ForwardedForAppendsPeer ==
    (exchange.pc # "off" /\ exchange.r.XForwardedFor # <<>>) =>
        exchange.upstreamHeader.XForwardedFor =
            exchange.r.XForwardedFor \o <<",", " ">> \o RemotePeer(exchange.r)

\* The longest of the route's paths that the request path begins with.
LongestPrefixLen(path, routePaths) ==
    LET lens == {Len(routePaths[i]) : i \in {k \in 1..Len(routePaths) :
                                              HasPrefix(path, routePaths[k])}}
    IN IF lens = {} THEN 0 ELSE CHOOSE n \in lens : \A m \in lens : m <= n

\* C32: with strip_path the upstream path is the inbound path without the
\* longest of the route's paths that it begins with ("/" when nothing is
\* left), in whatever order the route declares its paths.
C32_StripLongestPrefix ==
    (exchange.pc # "off" /\ exchange.route.StripPath) =>
        LET path == exchange.r.Path
            rest == SubSeq(path, LongestPrefixLen(path, exchange.route.Paths) + 1,
                           Len(path))
        IN exchange.upstreamPath = (IF rest = <<>> THEN <<"/">> ELSE rest)

\* C33: a failure before anything was written to the client is answered
\* with 502; a failure after the upstream's status was written hands the
\* client no further status and no error body.
C33_ErrorOnlyBeforeFirstByte ==
    exchange.pc = "done" =>
        /\ exchange.failed = "connect" =>
              /\ exchange.client.status = StatusBadGateway
              /\ exchange.client.body = <<"error">>
        /\ exchange.failed = "copy" =>
              /\ Len(exchange.client.headerCalls) = 1
              /\ \A i \in 1..Len(exchange.client.body) :
                    exchange.client.body[i] # "error"

(***************************************************************************)
(* CORS plugin (plugin/builtin/cors.go): one request through the plugin's  *)
(* BeforeRequest and, unless the chain was aborted, AfterResponse.         *)
(* Origins are strings of tokens (a label or ".").                         *)
(***************************************************************************)
StatusNoContent == 204

OriginA == <<"a", ".", "x">>
OriginSubX == <<"s", ".", "x">>
OriginC == <<"c">>
AnyOrigin == <<"*">>
SubdomainsOfX == <<"*", ".", "x">>

CORSConfigs ==
    {c \in [AllowedOrigins : {<<OriginA>>, <<AnyOrigin>>, <<SubdomainsOfX>>,
                              <<OriginC, OriginA>>},
            AllowCredentials : BOOLEAN] :
        \* validateCORSConfig: no credentials together with the wildcard origin
        ~(c.AllowCredentials /\ \E i \in 1..Len(c.AllowedOrigins) :
                                    c.AllowedOrigins[i] = AnyOrigin)}

CORSRequests ==
    [Method : {"GET", "POST", "OPTIONS"},
     Origin : {<<>>, OriginA, OriginSubX, OriginC},
     AccessControlRequestMethod : {<<>>, <<"POST">>}]

hasWildcardOrigin(config) ==
    \E i \in 1..Len(config.AllowedOrigins) : config.AllowedOrigins[i] = AnyOrigin

isOriginAllowed(config, origin) ==
    \/ hasWildcardOrigin(config)
    \/ \E i \in 1..Len(config.AllowedOrigins) :
          LET allowed == config.AllowedOrigins[i]
          IN \/ allowed = origin
             \/ /\ HasPrefix(allowed, <<"*", ".">>)
                /\ HasSuffix(origin, SubSeq(allowed, 3, Len(allowed)))

addCORSHeaders(c, config, origin) ==
    [c EXCEPT !.headers =
        @ \cup {"Access-Control-Allow-Origin", "Access-Control-Allow-Methods",
                "Access-Control-Allow-Headers", "Vary"}
          \cup (IF config.AllowCredentials
                THEN {"Access-Control-Allow-Credentials"} ELSE {})]

handlePreflight(c, config, origin) ==
    LET c1 == addCORSHeaders(c, config, origin)
    IN [c1 EXCEPT !.headers = @ \cup {"Access-Control-Max-Age"},
                  !.statusWritten = StatusNoContent,
                  !.aborted = TRUE,
                  !.abortStatusCode = StatusNoContent]

handleBeforeRequest(c, config) ==
    LET origin == c.Request.Origin
    IN IF origin = <<>> THEN c
       ELSE IF ~isOriginAllowed(config, origin) THEN c
       ELSE LET c1 == [c EXCEPT !.corsOriginAllowed = TRUE, !.corsOrigin = origin]
            IN IF c1.Request.Method = "OPTIONS"
               THEN handlePreflight(c1, config, origin)
               ELSE c1

handleAfterResponse(c, config) ==
    IF ~c.corsOriginAllowed THEN c
    ELSE addCORSHeaders(c, config, c.corsOrigin)

\* CORSPlugin.Execute in the BeforeRequest phase.
CORSBeforeRequest ==
    /\ ~cors.handled
    /\ \E config \in CORSConfigs, r \in CORSRequests :
          LET c == [Request |-> r, corsOriginAllowed |-> FALSE, corsOrigin |-> <<>>,
                    headers |-> {}, statusWritten |-> 0, aborted |-> FALSE,
                    abortStatusCode |-> 0]
          IN cors' = [handled |-> TRUE, phase |-> PhaseBeforeRequest, config |-> config,
                      c |-> handleBeforeRequest(c, config)]
    /\ UNCHANGED <<reloadVars, chainVars, limiterVars, tree, inserted, found,
                   matchRouter, matched, rw, exchange>>

\* CORSPlugin.Execute in the AfterResponse phase of a request that was
\* forwarded.
CORSAfterResponse ==
    /\ cors.handled
    /\ cors.phase = PhaseBeforeRequest
    /\ ~cors.c.aborted
    /\ cors' = [cors EXCEPT !.phase = PhaseAfterResponse,
                            !.c = handleAfterResponse(cors.c, cors.config)]
    /\ UNCHANGED <<reloadVars, chainVars, limiterVars, tree, inserted, found,
                   matchRouter, matched, rw, exchange>>

InitCORSSpec ==
    /\ InitStore
    /\ InitGateway
    /\ chain = ChainIdle
    /\ ctx = CtxIdle
    /\ exec = ExecIdle
    /\ InitLimiterIdle
    /\ InitUnitIdle

NextCORS ==
    \/ CORSBeforeRequest
    \/ CORSAfterResponse

SpecCORS == InitCORSSpec /\ [][NextCORS]_vars

\* The request's origin read against the configured list.
OriginListed(config, origin) ==
    \E i \in 1..Len(config.AllowedOrigins) :
        LET entry == config.AllowedOrigins[i]
        IN \/ entry = AnyOrigin
           \/ entry = origin
           \/ /\ Len(entry) > 2 /\ entry[1] = "*" /\ entry[2] = "."
              /\ Len(origin) > Len(entry) - 2
              /\ SubSeq(origin, Len(origin) - (Len(entry) - 2), Len(origin))
                    = SubSeq(entry, 2, Len(entry))

IsPreflight(config, r) ==
    /\ r.Method = "OPTIONS"
    /\ r.AccessControlRequestMethod # <<>>
    /\ r.Origin # <<>>
    /\ OriginListed(config, r.Origin)

\* C34: the CORS plugin aborts exactly the preflight requests (method
\* OPTIONS, Access-Control-Request-Method present, Origin allowed), with
\* 204 and the preflight headers set; every other request is not aborted.
C34_AbortIffPreflight ==
    cors.handled =>
        /\ cors.c.aborted <=> IsPreflight(cors.config, cors.c.Request)
        /\ cors.c.aborted =>
              /\ cors.c.abortStatusCode = StatusNoContent
              /\ "Access-Control-Max-Age" \in cors.c.headers
              /\ "Access-Control-Allow-Origin" \in cors.c.headers

(***************************************************************************)
(* The routing index fed with patterns as the routes table may hold them:  *)
(* Matcher.AddRoute hands every stored path to tree.Insert unchecked, so a *)
(* pattern may be of any length and may carry "*" in any position.         *)
(***************************************************************************)
\* Segments of a pattern long enough for its leading parameter node
\* (50 + segments) to outrank a one-segment static sibling (100 + 1).
DeepSegments == 52

PatA == <<"/", "a">>
PatDeep ==
    <<"/", ":", "x">> \o [i \in 1..(2 * (DeepSegments - 1)) |->
                             IF i % 2 = 1 THEN "/" ELSE "c"]
PatAWB == <<"/", "a", "/", "*", "/", "b">>

StoredPatterns == {PatA, PatAB, PatAW, PatXB, PatAWB, PatDeep}

\* tree.Insert(pattern, route) for a stored pattern.
TreeInsertStored ==
    /\ Len(inserted) < MaxInserts
    /\ \E pattern \in StoredPatterns :
          LET route == Route(TreeRouteIds[Len(inserted) + 1], "s1", <<pattern>>,
                             <<>>, <<>>, TRUE)
          IN /\ tree' = Insert(tree, pattern, route)
             /\ inserted' = Append(inserted, [pattern |-> pattern, route |-> route])
    /\ found' = [searched |-> FALSE]
    /\ UNCHANGED <<reloadVars, chainVars, limiterVars, matchRouter, matched, rw, edgeVars>>

NextStored ==
    \/ TreeInsertStored
    \/ TreeSearch

SpecStored == InitTreeSpec /\ [][NextStored]_vars

KindRank(n) ==
    CASE n.nType = "static" -> 1
      [] n.nType = "param" -> 2
      [] OTHER -> 3

\* The order in which search walks a node's children is the order they are
\* stored in.
RECURSIVE KindOrdered(_)
KindOrdered(n) ==
    /\ \A i, j \in 1..Len(n.children) :
          i < j => KindRank(n.children[i]) <= KindRank(n.children[j])
    /\ \A k \in 1..Len(n.children) : KindOrdered(n.children[k])

\* C35: after any sequence of inserts, the children of every node are
\* stored, and so tried by Search, static before param before wildcard.
C35_KindOrder == KindOrdered(tree.root)

RECURSIVE WildcardsAreLeaves(_)
WildcardsAreLeaves(n) ==
    /\ n.nType = "wildcard" => n.children = <<>>
    /\ \A k \in 1..Len(n.children) : WildcardsAreLeaves(n.children[k])

\* C36: after any sequence of inserts, no wildcard node of the index has
\* child nodes (a wildcard is the last segment of every pattern held).
C36_WildcardLast == WildcardsAreLeaves(tree.root)

(***************************************************************************)
(* Router.Match against every route of the snapshot (SpecMatch).           *)
(***************************************************************************)
\* A route of the snapshot that, read on its own, admits the request: it is
\* enabled, one of its patterns admits the path, its method and host lists
\* admit the request, and its service is known and enabled.
RouteAdmits(r, route, req) ==
    /\ route.enabled
    /\ \E p \in 1..Len(route.paths) : Admits(route.paths[p], req.path)
    /\ MethodListed(route, req.method)
    /\ HostListed(route, req.host)
    /\ route.serviceId \in DOMAIN r.services
    /\ r.services[route.serviceId].enabled

\* C37: whenever the snapshot holds a route that admits the request,
\* Router.Match succeeds, also when another route under the same pattern
\* does not admit it.
C37_AdmittingRouteMatches ==
    matched.called =>
        ((\E k \in 1..Len(matchRouter.routes) :
              RouteAdmits(matchRouter, matchRouter.routes[k], matched.req))
            => matched.result.ok)

(***************************************************************************)
(* Rate limiters over real time (SpecBucketRace, SpecWindowRace).          *)
(***************************************************************************)
\* C38: every call answered so far was made within the clock ticks that
\* have passed, a span of T = clock / (1000 * TicksPerMs) seconds, so the
\* calls allowed are at most Capacity + RefillRate * T, whatever the order
\* of the timestamps the store was handed.
C38_AtMostCapacityPlusRefill ==
    limiterConfig.algorithm = "token_bucket" =>
        AllowedCount * 1000 * TicksPerMs
            <= limiterConfig.Capacity * 1000 * TicksPerMs
                 + limiterConfig.RefillRate * clock

\* The calls allowed at an instant of the half-open interval [from, from + Window).
AllowedWithin(from) ==
    {j \in 1..Len(results) :
        /\ IsCall(results[j])
        /\ results[j].Allowed
        /\ results[j].now >= from
        /\ results[j].now < from + limiterConfig.Window}

\* C39: in every real-time interval of the window's length, taken from any
\* call on, at most Limit calls are allowed, wherever the calls fall with
\* respect to the clock's ticks and whole seconds.
C39_AtMostLimitPerWindow ==
    limiterConfig.algorithm = "sliding_window" =>
        \A i \in 1..Len(results) :
            IsCall(results[i]) =>
                Cardinality(AllowedWithin(results[i].now)) <= limiterConfig.Limit

(***************************************************************************)
(* The watcher's loop until its context is cancelled (Watcher.Start), with *)
(* every kind of message on the channel.  The goroutine keeps running and  *)
(* the store answers every read, with rows or with an error, so each step  *)
(* of the loop and of the handlers is taken once it can be.                *)
(***************************************************************************)
\* make plugin-reload: a "plugin" message without a change of the tables.
PluginReload ==
    /\ notices < MaxNotices
    /\ notices' = notices + 1
    /\ Publish("plugin")
    /\ UNCHANGED <<tblRoutes, tblServices, tblPlugins, changes, gatewayVars, chainVars,
                   limiterVars, unitVars>>

\* case <-ctx.Done(): return ctx.Err()
Cancel ==
    /\ w.pc = "select"
    /\ w' = [w EXCEPT !.pc = "cancelled"]
    /\ UNCHANGED <<storeVars, fails, router, snapPlugins, registry, reqs, gen, before,
                   published, loadResult, handled, chainVars, limiterVars, unitVars>>

NextWatchLive ==
    \/ AdminCreateRoute
    \/ PublishOther
    \/ PluginReload
    \/ Receive
    \/ RegistryClear
    \/ RegistryLoad
    \/ RouterLoadRoutes
    \/ RouterLoadServices
    \/ RouterSwap
    \/ Cancel

\* The watcher's side of RouterSwap: Reload returns to the loop.
SwapReturns ==
    /\ w.pc = "swap"
    /\ w' = Return(w, IF w.pluginsRead THEN "ok" ELSE "okEmptyPlugins")

\* The steps of the watcher's goroutine; at most one of them can be taken
\* at a time.  The last one is taken exactly when RouterSwap is.
WatcherStep ==
    \/ Receive
    \/ RegistryClear
    \/ RegistryLoad
    \/ RouterLoadRoutes
    \/ RouterLoadServices
    \/ SwapReturns

SpecWatchLive == Init /\ [][NextWatchLive]_vars /\ WF_w(WatcherStep)

MsgIds == 1..(MaxChanges + MaxNotices)

Arrived(id) == \E i \in 1..Len(arrived) : arrived[i] = id

\* The message was taken from the channel and its handling has returned.
Completed(id) ==
    /\ \E i \in 1..Len(handled) : handled[i] = id
    /\ w.id = id => w.pc \in {"select", "cancelled"}

Cancelled == w.pc = "cancelled"

\* C40: every message that reaches the channel is received and its handling
\* returns, whatever the messages before it were (not JSON, of an unknown
\* entity type, or with a reload that failed), unless the watcher's context
\* is cancelled first.
C40_WatcherKeepsHandling ==
    \A id \in MsgIds : Arrived(id) ~> (Completed(id) \/ Cancelled)

\* A reload succeeded for the message that followed one whose reload failed.
C40_Witness ==
    /\ Len(handled) = 2
    /\ w.id = 2
    /\ w.pc = "select"
    /\ w.outcome = "ok"
    /\ fails = 1

\* A reload succeeded for the message that followed one that is not JSON.
C40_WitnessAfterBadJSON ==
    /\ Len(handled) = 2
    /\ w.id = 2
    /\ w.pc = "select"
    /\ w.outcome = "ok"
    /\ notices = 1
    /\ fails = 0
    /\ changes = 1

====
